---- MODULE Spec2Model ----
(***************************************************************************)
(* Verification model of the fantasy-draft projection service.             *)
(*                                                                         *)
(* The repository holds three drafts of the projections route:             *)
(*   "early"  src/unnamed/part_000 lines   1-307 (ALL path, fast flag)     *)
(*   "late"   src/unnamed/part_000 lines 308-675 (try/catch, seasons)      *)
(*   "guard"  src/src/app/api/projections/route.ts lines 1-299             *)
(*            (single cache behind the in-flight promise _building)        *)
(* and the player search route src/src/app/api/players/search/route.ts.    *)
(*                                                                         *)
(* Every behaviour runs one of these route modules (variable route, fixed  *)
(* by the initial state) against a fixed upstream data set; a handler is   *)
(* cut into one action per synchronous segment between two awaits.         *)
(*                                                                         *)
(* Query parameters are strings; an absent parameter is modelled as ""     *)
(* because every parameter is read as (get(x) || default) or tested for    *)
(* truthiness, which treats null and "" alike.                             *)
(***************************************************************************)
EXTENDS Integers, Sequences, FiniteSets, TLC

VARIABLES
    route,      \* which route module this behaviour runs
    now,        \* Date.now(), in milliseconds since the process started
    posCache,   \* early/late: Map key -> {at, rows}
    idsCache,   \* early/late: Map key -> {at, row}
    projCache,  \* guard: _projectionsCache (hit = FALSE models null)
    building,   \* guard: _building, 0 = null, else the request whose build it is
    playersCache, \* guard: _playersCache (hit = FALSE models null)
    arrivals,   \* whether requests arrive one after the other or overlap
    reqs,       \* the requests received so far, in order of arrival
    outages,    \* number of upstream failures so far (a failed build or roster fetch)
    tuned,      \* number of requests so far with a limit or exclude parameter
    upstream,   \* what each build yields from the upstream data (fixed by Init)
    fw,         \* a caller of fetchWeek and the week cache (SpecFetch)
    wp,         \* a worker pool fetching weekly pages (SpecPool)
    calc,       \* the inputs and results of the scoring functions (SpecCalc)
    ui          \* the state of a component of the page (SpecBundle, SpecDraft)

\* the state of the route modules
service == <<route, arrivals, now, posCache, idsCache, projCache, building, playersCache,
             reqs, outages, tuned, upstream>>

\* the state of the specifications that run one function on its own
bench == <<fw, wp, calc, ui>>

vars == <<route, arrivals, now, posCache, idsCache, projCache, building, playersCache,
          reqs, outages, tuned, upstream, fw, wp, calc, ui>>

\* the value of a variable that the specification at hand does not use
Unused == [pc |-> "unused"]

(***************************************************************************)
(* Bounds of the model.                                                    *)
(***************************************************************************)
MaxReqs == 2        \* requests received in one behaviour
MaxTicks == 1       \* clock ticks in one behaviour
MaxOutages == 1     \* upstream failures in one behaviour
NumWeeks == 2       \* weeks of a season that are modelled (the code fetches 18)
MaxTuned == 1       \* requests carrying a non-default limit or exclude parameter

(***************************************************************************)
(* JavaScript numbers: an exact rational num/den in lowest terms, or NaN.  *)
(***************************************************************************)
RECURSIVE GCD(_, _)
GCD(a, b) == IF b = 0 THEN a ELSE GCD(b, a % b)

Abs(x) == IF x < 0 THEN -x ELSE x

NaN == [nan |-> TRUE, num |-> 0, den |-> 1]

R(n, d) ==
    LET g == GCD(Abs(n), Abs(d))
        s == IF d < 0 THEN -1 ELSE 1
    IN  [nan |-> FALSE, num |-> s * (n \div g), den |-> s * (d \div g)]

Int2Num(n) == R(n, 1)

isFinite(x) == ~x.nan

\* a < b and a <= b are false as soon as one side is NaN
NumLt(a, b) == ~a.nan /\ ~b.nan /\ a.num * b.den < b.num * a.den
NumLe(a, b) == ~a.nan /\ ~b.nan /\ a.num * b.den <= b.num * a.den

NumAdd(a, b) ==
    IF a.nan \/ b.nan THEN NaN ELSE R(a.num * b.den + b.num * a.den, a.den * b.den)
NumSub(a, b) ==
    IF a.nan \/ b.nan THEN NaN ELSE R(a.num * b.den - b.num * a.den, a.den * b.den)
NumMul(a, b) ==
    IF a.nan \/ b.nan THEN NaN ELSE R(a.num * b.num, a.den * b.den)
\* x / n; 0 / 0 is NaN, the only division by zero the code can perform is guarded
NumDivInt(a, n) ==
    IF a.nan \/ n = 0 THEN NaN ELSE R(a.num, a.den * n)

\* Math.max / Math.min return NaN when either argument is NaN
MathMax(a, b) == IF a.nan \/ b.nan THEN NaN ELSE IF NumLt(a, b) THEN b ELSE a
MathMin(a, b) == IF a.nan \/ b.nan THEN NaN ELSE IF NumLt(b, a) THEN b ELSE a

\* ToIntegerOrInfinity as Array.prototype.slice applies it to its end index:
\* NaN becomes 0, anything else is truncated toward zero
ToInteger(x) ==
    IF x.nan THEN 0
    ELSE IF x.num >= 0 THEN x.num \div x.den ELSE -((-x.num) \div x.den)

\* xs.slice(0, end) for end >= 0
SliceTo(xs, end) ==
    LET k == IF end < 0 THEN 0 ELSE IF end > Len(xs) THEN Len(xs) ELSE end
    IN  SubSeq(xs, 1, k)


(***************************************************************************)
(* Query-string conversions.  The parameter strings the model sends are    *)
(* the tokens below; Number, split and toUpperCase are given by what they  *)
(* return on each of them.                                                 *)
(***************************************************************************)
\* Number(s): "" is 0, text is NaN
Number(s) ==
    CASE s = ""     -> Int2Num(0)
      [] s = "0"    -> Int2Num(0)
      [] s = "-3"   -> Int2Num(-3)
      [] s = "1"    -> Int2Num(1)
      [] s = "2"    -> Int2Num(2)
      [] s = "2.5"  -> R(5, 2)
      [] s = "4"    -> Int2Num(4)
      [] s = "6"    -> Int2Num(6)
      [] s = "500"  -> Int2Num(500)
      [] s = "2020" -> Int2Num(2020)
      [] s = "2021" -> Int2Num(2021)
      [] s = "2022" -> Int2Num(2022)
      [] s = "2023" -> Int2Num(2023)
      [] s = "2024" -> Int2Num(2024)
      [] OTHER      -> NaN

\* s.split(','): "" splits into one empty string
Split(s) ==
    CASE s = ""          -> <<"">>
      [] s = ","         -> <<"", "">>
      [] s = "id7,id3"   -> <<"id7", "id3">>
      [] s = "2023,2024" -> <<"2023", "2024">>
      [] s = "2024,2023" -> <<"2024", "2023">>
      [] s = "2024,2024" -> <<"2024", "2024">>
      [] s = "2020,2021,2022,2023,2024" -> <<"2020", "2021", "2022", "2023", "2024">>
      [] OTHER           -> <<s>>

toUpperCase(s) ==
    CASE s = "rb"       -> "RB"
      [] OTHER          -> s

toLowerCase(s) ==
    CASE s = "Back"         -> "back"
      [] s = "Back Three"   -> "back three"
      [] s = "Back Seven"   -> "back seven"
      [] s = "Passer One"   -> "passer one"
      [] s = "Catcher Five" -> "catcher five"
      [] s = "End Nine"     -> "end nine"
      [] s = "Kicker Eight" -> "kicker eight"
      [] OTHER              -> s

\* s.includes(q) for the lower-case names and query texts above
includes(s, q) ==
    \/ q = ""
    \/ s = q
    \/ (q = "back" /\ s \in {"back three", "back seven"})

SetMin(S) == CHOOSE x \in S : \A y \in S : x <= y

\* the element of a one-element set; {e(x) : x \in {v}} names the value v
The(S) == CHOOSE x \in S : TRUE

\* the elements of xs at the indices I, in index order
AtIndices(xs, I) ==
    [k \in 1..Cardinality(I) |->
        xs[CHOOSE i \in I : Cardinality({j \in I : j < i}) = k - 1]]

\* xs.filter(keep) for a sequence
Filter(xs, keep(_)) == AtIndices(xs, {i \in 1..Len(xs) : keep(xs[i])})

Range(xs) == {xs[i] : i \in 1..Len(xs)}

\* s.split(',').map(s => s.trim()).filter(Boolean); no token carries blanks
SplitIds(s) == LET nonEmpty(t) == t # "" IN Filter(Split(s), nonEmpty)

(***************************************************************************)
(* Scoring helpers of the late draft (part_000 lines 353-437).  Points are *)
(* Numbers; a weekly record is a function whose domain holds exactly the   *)
(* fields that are present (not null, not undefined).  The pts_* fields    *)
(* of the upstream data are written in hundredths of a point.              *)
(***************************************************************************)
POSITIONS == <<"QB", "RB", "WR", "TE">>
STALE_MS == 12 * 60 * 60 * 1000
DEFAULT_SEASONS == <<2022, 2023, 2024>>

\* late draft: the seasons parameter, DEFAULT_SEASONS when no number is left
parseSeasons(s) ==
    LET nums == [i \in 1..Len(Split(s)) |-> Number(Split(s)[i])]
        seasonsParam == Filter(nums, isFinite)
    IN  IF Len(seasonsParam) # 0
        THEN [i \in 1..Len(seasonsParam) |-> seasonsParam[i].num]
        ELSE DEFAULT_SEASONS

\* a clamp that lets every value through
clampNone(n, min, max) == n

clamp(n, min, max) == MathMax(min, MathMin(max, n))

Has(r, f) == f \in DOMAIN r
\* (r.f ?? 0)
Or0(r, f) == IF Has(r, f) THEN r[f] ELSE 0

\* age = 0 models an age that is undefined; ages are whole years (Math.floor)
ageMultiplier(pos, age) ==
    LET one == Int2Num(1)
        zero == Int2Num(0)
        \* rates and caps in thousandths
        adj(peak, rateD, capD, rateG, capG) ==
            LET d == age - peak
            IN  IF d > 0
                THEN NumSub(one, clamp(R(rateD * d, 1000), zero, R(capD, 1000)))
                ELSE NumAdd(one, clamp(R(rateG * (-d), 1000), zero, R(capG, 1000)))
    IN  IF age = 0 THEN one
        ELSE CASE pos = "RB" -> adj(26, 60, 250, 20, 80)
               [] pos = "WR" -> adj(27, 30, 180, 15, 60)
               [] pos = "TE" -> adj(28, 20, 120, 10, 50)
               [] pos = "QB" -> adj(32, 15, 120, 10, 50)
               [] OTHER      -> one

weeklyPoints(stat, preset, passTd) ==
    IF preset = "PPR" /\ Has(stat, "pts_ppr") THEN R(stat.pts_ppr, 100)
    ELSE IF preset = "HALF_PPR" /\ Has(stat, "pts_half_ppr") THEN R(stat.pts_half_ppr, 100)
    ELSE IF preset = "STANDARD" /\ Has(stat, "pts_std") THEN R(stat.pts_std, 100)
    ELSE
        LET pass == Or0(stat, "pass_yd") * 4 + Or0(stat, "pass_td") * passTd * 100
                    - Or0(stat, "pass_int") * 100
            rush == Or0(stat, "rush_yd") * 10 + Or0(stat, "rush_td") * 600
            catchBonus == IF preset = "PPR" THEN 100
                          ELSE IF preset = "HALF_PPR" THEN 50 ELSE 0
            rec == Or0(stat, "rec_yd") * 10 + Or0(stat, "rec_td") * 600
                   + Or0(stat, "rec") * catchBonus
        IN  R(pass + rush + rec, 100)

didPlay(w) ==
    \/ (Has(w, "pts_ppr") /\ w.pts_ppr # 0)
    \/ Or0(w, "pass_td") > 0
    \/ Or0(w, "pass_yd") > 0
    \/ Or0(w, "rush_td") > 0
    \/ Or0(w, "rush_yd") > 0
    \/ Or0(w, "rec") > 0
    \/ Or0(w, "rec_td") > 0
    \/ Or0(w, "rec_yd") > 0
    \/ Or0(w, "targets") > 0
    \/ Or0(w, "carries") > 0

\* [...xs].sort(cmp): a stable sort; before(a, b) is cmp(a, b) < 0.
\* Element i lands behind every element that sorts before it and behind every
\* earlier element it does not sort before.
SortBy(xs, before(_, _)) ==
    LET ahead(i) == {j \in 1..Len(xs) :
                        \/ before(xs[j], xs[i])
                        \/ (j < i /\ ~before(xs[i], xs[j]))}
    IN  [k \in 1..Len(xs) |->
            xs[CHOOSE i \in 1..Len(xs) : Cardinality(ahead(i)) = k - 1]]

lastNPlayedPoints(weeks, n, preset, passTd) ==
    LET earlier(a, b) == IF a.season # b.season THEN a.season < b.season
                         ELSE a.week < b.week
        ordered == SortBy(weeks, earlier)
        played == Filter(ordered, didPlay)
        pts == [i \in 1..Len(played) |-> weeklyPoints(played[i], preset, passTd)]
        from == IF Len(pts) - n > 0 THEN Len(pts) - n ELSE 0
    IN  SubSeq(pts, from + 1, Len(pts))

RECURSIVE Sum(_)
Sum(xs) == IF xs = <<>> THEN Int2Num(0) ELSE NumAdd(Head(xs), Sum(Tail(xs)))

average(xs) == IF Len(xs) # 0 THEN NumDivInt(Sum(xs), Len(xs)) ELSE Int2Num(0)

projectPPG(weeks, preset, passTd, pos, age) ==
    LET last == lastNPlayedPoints(weeks, 50, preset, passTd)
        base == average(last)
    IN  NumMul(base, ageMultiplier(pos, age))


(***************************************************************************)
(* The upstream API: the roster and the weekly pages, a fixed data set.    *)
(* age stands for Math.floor(yearsSince(birth_date)), 0 for no birth date. *)
(***************************************************************************)
Roster ==
    << [player_id |-> "id3", full_name |-> "Back Three",  position |-> "RB", team |-> "AAA", age |-> 28],
       [player_id |-> "id7", full_name |-> "Back Seven",  position |-> "RB", team |-> "BBB", age |-> 26],
       [player_id |-> "id1", full_name |-> "Passer One",  position |-> "QB", team |-> "AAA", age |-> 33],
       [player_id |-> "id5", full_name |-> "Catcher Five", position |-> "WR", team |-> "",   age |-> 30],
       [player_id |-> "id9", full_name |-> "End Nine",    position |-> "TE", team |-> "BBB", age |-> 0],
       [player_id |-> "id8", full_name |-> "Kicker Eight", position |-> "K",  team |-> "AAA", age |-> 29] >>

\* weeks of a season that the stats handlers look at (18 in the code); the
\* upstream has the pages of the seasons 2022 to 2024 for the weeks up to
\* NumWeeks
PoolWeeks == 3

\* stop once we have the last 50 played games
TARGET == 50

\* Veteran Sixty, who is not on the roster, has one record short of TARGET in
\* the seasons from 2025 on (every week of the seasons after 2025, and the
\* first weeks of 2025), and a record in every week of 2023 and 2024
veteranSeasons == (TARGET - 1) \div PoolWeeks
veteranWeek(season, week) ==
    \/ season \in 2026..(2025 + veteranSeasons) /\ week \in 1..PoolWeeks
    \/ season = 2025 /\ week \in 1..((TARGET - 1) % PoolWeeks)
    \/ season \in {2023, 2024} /\ week \in 1..NumWeeks
veteranRows(season, week) ==
    IF veteranWeek(season, week)
    THEN << [player_id |-> "id60", season |-> season, week |-> week,
             stats |-> [rec |-> 3, rec_yd |-> 40]] >>
    ELSE <<>>

\* the body of the page of (season, week) when the upstream answers it
WeekPage(season, week) ==
    IF season \notin {2022, 2023, 2024} \/ week \notin 1..NumWeeks
    THEN veteranRows(season, week)
    ELSE
      << [player_id |-> "id7", season |-> season, week |-> week,
          stats |-> [rush_yd |-> 60 + 20 * (season - 2022), rec |-> 5, carries |-> 20]],
         [player_id |-> "id3", season |-> season, week |-> week,
          stats |-> IF week = 2 THEN [rush_yd |-> 0, rec |-> 0]
                    ELSE [rush_yd |-> 50, rec |-> 2, rec_yd |-> 10 * (season - 2022)]],
         [player_id |-> "id1", season |-> season, week |-> week,
          stats |-> IF season = 2022
                    THEN [pts_ppr |-> 2050, pass_yd |-> 300, pass_td |-> 2]
                    ELSE [pass_yd |-> 250, pass_td |-> 2, pass_int |-> 1]],
         [player_id |-> "id5", season |-> season, week |-> week,
          stats |-> [rec |-> 6, receiving_yards |-> 70, pts_std |-> 650 + 50 * week]] >>
      \o (IF season = 2024
          THEN << [player_id |-> "id9", season |-> season, week |-> week,
                   rec |-> 3, rec_yd |-> 30, targets |-> 5] >>
          ELSE <<>>)
      \* two players who are not on the roster: standard totals of 10, 20 and
      \* 30 in three weeks, and one week in which two interceptions outweigh
      \* ten yards
      \o (IF (season = 2023 /\ week \in {1, 2}) \/ (season = 2024 /\ week = 1)
          THEN << [player_id |-> "id30", season |-> season, week |-> week,
                   stats |-> [rec |-> 4, pts_std |-> IF season = 2024 THEN 3000 ELSE 1000 * week]] >>
          ELSE <<>>)
      \o (IF season = 2024 /\ week = 2
          THEN << [player_id |-> "id40", season |-> season, week |-> week,
                   stats |-> [pass_yd |-> 10, pass_int |-> 2]] >>
          ELSE <<>>)
      \o veteranRows(season, week)

\* a page entry that is null instead of a record
NullRow == [isNull |-> TRUE]

\* What the upstream does during one build:
\*   "none"      every page is answered
\*   "one"       every candidate URL of page (2024, 1) fails
\*   "malformed" page (2024, 1) is answered with the body [null]
Outages == {"none", "one", "malformed"}

\* fetchWeek: the page as an array, [] when every candidate URL failed
fetchWeek(season, week, outage) ==
    IF season = 2024 /\ week = 1 /\ outage = "one" THEN <<>>
    ELSE IF season = 2024 /\ week = 1 /\ outage = "malformed" THEN <<NullRow>>
    ELSE WeekPage(season, week)

\* fetchWeeksBatched: one result slot per job, jobs in season-major order
fetchWeeksBatched(seasons, outage) ==
    [j \in 1..(Len(seasons) * NumWeeks) |->
        fetchWeek(seasons[((j - 1) \div NumWeeks) + 1], ((j - 1) % NumWeeks) + 1, outage)]

\* fetchPlayers of the early and late drafts: the roster filtered to the pool
fetchPlayers ==
    LET inPool(p) == p.player_id # "" /\ p.full_name # "" /\ p.position \in Range(POSITIONS)
    IN  Filter(Roster, inPool)

(***************************************************************************)
(* buildProjectionsFor, late draft (part_000 lines 510-563).               *)
(***************************************************************************)
RECURSIVE Flatten(_)
Flatten(pages) == IF pages = <<>> THEN <<>> ELSE Head(pages) \o Flatten(Tail(pages))

StatFields ==
    << <<"pts_ppr", <<"pts_ppr", "ppr_points">> >>,
       <<"pts_half_ppr", <<"pts_half_ppr">> >>,
       <<"pts_std", <<"pts_std">> >>,
       <<"pass_yd", <<"pass_yd", "passing_yards">> >>,
       <<"pass_td", <<"pass_td", "passing_tds">> >>,
       <<"pass_int", <<"pass_int", "interceptions">> >>,
       <<"rush_yd", <<"rush_yd", "rushing_yards">> >>,
       <<"rush_td", <<"rush_td", "rushing_tds">> >>,
       <<"rec", <<"rec", "receptions">> >>,
       <<"rec_yd", <<"rec_yd", "receiving_yards">> >>,
       <<"rec_td", <<"rec_td", "receiving_tds">> >>,
       <<"targets", <<"targets", "rec_tgt", "tgt">> >>,
       <<"carries", <<"carries", "rush_att", "rushing_att">> >> >>

\* st.k1 ?? st.k2 ?? ...: the index of the first key that is present, 0 if none
FirstKey(st, keys) ==
    LET I == {i \in 1..Len(keys) : Has(st, keys[i])}
    IN  IF I = {} THEN 0 ELSE SetMin(I)

\* the WeeklyStat built from one raw row (row.stats ?? row)
toWeeklyStat(row) ==
    LET st == IF Has(row, "stats") THEN row.stats ELSE row
        present == {i \in 1..Len(StatFields) : FirstKey(st, StatFields[i][2]) # 0}
        names == {StatFields[i][1] : i \in present}
        idx(f) == CHOOSE i \in present : StatFields[i][1] = f
    IN  [f \in names \cup {"week", "season", "player_id"} |->
            CASE f = "week" -> row.week
              [] f = "season" -> row.season
              [] f = "player_id" -> row.player_id
              [] OTHER -> st[StatFields[idx(f)][2][FirstKey(st, StatFields[idx(f)][2])]]]

\* the bucket of one player: its records in page order
bucketOf(id, weeksAll) ==
    LET mine(row) == row.player_id = id
        rows == Filter(Flatten(weeksAll), mine)
    IN  [i \in 1..Len(rows) |-> toWeeklyStat(rows[i])]

\* reading a property of a null page entry throws a TypeError
buildThrows(seasons, outage) ==
    \E j \in 1..(Len(seasons) * NumWeeks) :
        NullRow \in Range(fetchWeeksBatched(seasons, outage)[j])

buildProjectionsFor(players, preset, passTd, seasons, outage) ==
    LET weeksAll == fetchWeeksBatched(seasons, outage)
    IN  [i \in 1..Len(players) |->
            LET p == players[i]
                ppg == projectPPG(bucketOf(p.player_id, weeksAll), preset, passTd,
                                  p.position, p.age)
            IN  [player_id |-> p.player_id,
                 full_name |-> p.full_name,
                 position  |-> toUpperCase(p.position),
                 team      |-> p.team,
                 ppg       |-> IF isFinite(ppg) THEN ppg ELSE Int2Num(0)]]

(***************************************************************************)
(* Helpers and buildProjectionsFor of the early draft (part_000 42-200).   *)
(***************************************************************************)
ageMultiplierEarly(pos, age) ==
    LET one == Int2Num(1)
        adj(peak, rateD, capD, rateG, capG) ==
            LET d == age - peak
            IN  IF d > 0 THEN NumSub(one, MathMin(R(capD, 1000), R(rateD * d, 1000)))
                ELSE IF d < 0 THEN NumAdd(one, MathMin(R(capG, 1000), R(rateG * (-d), 1000)))
                ELSE one
    IN  IF age = 0 THEN one
        ELSE CASE pos = "RB" -> adj(26, 60, 250, 20, 80)
               [] pos = "WR" -> adj(27, 30, 180, 15, 60)
               [] pos = "TE" -> adj(28, 20, 120, 10, 50)
               [] pos = "QB" -> adj(32, 15, 120, 10, 50)
               [] OTHER      -> one

\* newest first, the first n weeks whose points are finite and not 0
lastNPlayedPointsEarly(weeks, n, preset, passTd) ==
    LET later(a, b) == IF a.season # b.season THEN a.season > b.season
                       ELSE a.week > b.week
        sorted == SortBy(weeks, later)
        scored(w) == LET pt == weeklyPoints(w, preset, passTd)
                     IN  isFinite(pt) /\ pt # Int2Num(0)
        kept == Filter(sorted, scored)
        pts == [i \in 1..Len(kept) |-> weeklyPoints(kept[i], preset, passTd)]
    IN  SubSeq(pts, 1, IF Len(pts) < n \/ Len(pts) = 0 THEN Len(pts) ELSE IF n < 1 THEN 1 ELSE n)

buildProjectionsForEarly(players, preset, passTd, seasons, outage) ==
    LET weeks == fetchWeeksBatched(seasons, outage)
    IN  [i \in 1..Len(players) |->
            LET p == players[i]
                last50 == lastNPlayedPointsEarly(bucketOf(p.player_id, weeks), 50, preset, passTd)
                base == average(last50)
                adj == NumMul(base, ageMultiplierEarly(p.position, p.age))
            IN  [player_id |-> p.player_id,
                 full_name |-> p.full_name,
                 position  |-> p.position,
                 team      |-> p.team,
                 ppg       |-> IF isFinite(adj) THEN adj ELSE Int2Num(0)]]

(***************************************************************************)
(* The projections route with the in-flight guard (route.ts lines 39-262). *)
(* Its clamp, ageMultiplier and weeklyPoints (lines 51-93) return what the *)
(* late draft's return, and are the operators above.                       *)
(***************************************************************************)
SEASONS == <<2020, 2021, 2022, 2023, 2024>>
LAST_N == 50
BUILD_TTL_MS == 1000 * 60 * 60

GuardStatFields ==
    << <<"pts_ppr", <<"pts_ppr", "ppr_points">> >>,
       <<"pts_half_ppr", <<"pts_half_ppr", "half_ppr_points">> >>,
       <<"pts_std", <<"pts_std", "standard_points">> >>,
       <<"pass_yd", <<"pass_yd", "passing_yards">> >>,
       <<"pass_td", <<"pass_td", "passing_tds">> >>,
       <<"pass_int", <<"pass_int", "interceptions">> >>,
       <<"rush_yd", <<"rush_yd", "rushing_yards">> >>,
       <<"rush_td", <<"rush_td", "rushing_tds">> >>,
       <<"rec", <<"rec", "receptions">> >>,
       <<"rec_yd", <<"rec_yd", "receiving_yards">> >>,
       <<"rec_td", <<"rec_td", "receiving_tds">> >>,
       <<"targets", <<"targets", "tgt", "rec_tgt">> >>,
       <<"carries", <<"carries", "rush_att", "rushing_att">> >> >>

\* pickNum: the index of the first key that holds a number, 0 for undefined;
\* every value of the upstream data is a finite number
pickNum(row, keys) ==
    LET I == {i \in 1..Len(keys) : Has(row, keys[i])}
    IN  IF I = {} THEN 0 ELSE SetMin(I)

\* the weeks, seasons newest first and weeks downwards, that one player scans
GuardJobs ==
    [j \in 1..(Len(SEASONS) * NumWeeks) |->
        [season |-> SEASONS[Len(SEASONS) - ((j - 1) \div NumWeeks)],
         wk |-> NumWeeks - ((j - 1) % NumWeeks)]]

\* the WeeklyStat of lines 176-192 built from the raw fields s
GuardStat(s, id, season, wk) ==
    LET present == {i \in 1..Len(GuardStatFields) : pickNum(s, GuardStatFields[i][2]) # 0}
        idx(f) == CHOOSE i \in present : GuardStatFields[i][1] = f
    IN  [f \in {GuardStatFields[i][1] : i \in present} \cup {"week", "season", "player_id"} |->
            CASE f = "week" -> wk
              [] f = "season" -> season
              [] f = "player_id" -> id
              [] OTHER -> s[GuardStatFields[idx(f)][2][pickNum(s, GuardStatFields[idx(f)][2])]]]

\* one turn of the loop of fetchLast50ForPlayer over the page arr:
\* "throw" (a property of a null entry is read), "skip" or the WeeklyStat
GuardScan(arr, id, season, wk) ==
    LET match == {i \in 1..Len(arr) : Has(arr[i], "player_id") /\ arr[i].player_id = id}
        stop == IF match = {} THEN Len(arr) + 1 ELSE SetMin(match)
    IN  IF Len(arr) = 0 THEN [kind |-> "skip"]
        ELSE IF \E i \in 1..Len(arr) : arr[i] = NullRow /\ i < stop THEN [kind |-> "throw"]
        ELSE IF match = {} THEN [kind |-> "skip"]
        ELSE The({ IF \E f \in {"pts_ppr", "pts_half_ppr", "pts_std", "pass_yd", "rush_yd",
                                "rec_yd", "rec"} : Has(stat, f)
                   THEN [kind |-> "stat", stat |-> stat]
                   ELSE [kind |-> "skip"] :
                   stat \in {GuardStat(IF Has(arr[stop], "stats") THEN arr[stop].stats
                                       ELSE arr[stop], id, season, wk)} })

\* lastNPlayedPoints of route.ts: newest first, the first n totals that are not 0
GuardLastNPlayedPoints(weeks, n, preset, passTd) ==
    LET later(a, b) == IF a.season # b.season THEN a.season > b.season
                       ELSE a.week > b.week
        scored(w) == weeklyPoints(w, preset, passTd) # Int2Num(0)
    IN  The({ [i \in 1..(IF Len(kept) < n \/ Len(kept) = 0 THEN Len(kept) ELSE IF n < 1 THEN 1 ELSE n) |->
                  weeklyPoints(kept[i], preset, passTd)] :
              kept \in {Filter(SortBy(weeks, later), scored)} })

\* the records one player collects: the loops stop at LAST_N records; the
\* result says whether a turn before that threw
GuardCollect(turn) ==
    LET got == {j \in 1..Len(turn) : turn[j].kind = "stat"}
        last == IF Cardinality(got) >= LAST_N
                THEN CHOOSE j \in got : Cardinality({k \in got : k <= j}) = LAST_N
                ELSE Len(turn)
    IN  [throws |-> \E j \in 1..last : turn[j].kind = "throw",
         weeks |-> [i \in 1..Cardinality({j \in got : j <= last}) |->
                      turn[CHOOSE j \in got : Cardinality({k \in got : k < j}) = i - 1].stat]]

\* fetchLast50ForPlayer: the ppg of one player, or that it throws
fetchLast50ForPlayer(p, preset, passTd, outage) ==
    The({ IF c.throws THEN [throws |-> TRUE, ppg |-> NaN]
          ELSE IF Len(c.weeks) = 0 THEN [throws |-> FALSE, ppg |-> Int2Num(0)]
          ELSE The({ [throws |-> FALSE,
                      ppg |-> NumMul(IF Len(pts) # 0 THEN NumDivInt(Sum(pts), Len(pts))
                                     ELSE Int2Num(0),
                                     ageMultiplier(p.position, p.age))] :
                     pts \in {GuardLastNPlayedPoints(c.weeks, LAST_N, preset, passTd)} }) :
          c \in { GuardCollect(turn) :
                  turn \in { [j \in 1..Len(GuardJobs) |->
                               The({ GuardScan(arr, p.player_id, GuardJobs[j].season,
                                               GuardJobs[j].wk) :
                                     arr \in {fetchWeek(GuardJobs[j].season, GuardJobs[j].wk,
                                                        outage)} })] } } })

\* loadPlayers of route.ts: the roster filtered as fetchPlayers filters it
loadPlayers == fetchPlayers

\* the pool of a build: players with a team first (caps 1200 and 400)
GuardPool ==
    LET withTeam(p) == p.team # ""
        withoutTeam(p) == p.team = ""
    IN  SliceTo(Filter(loadPlayers, withTeam), 1200)
        \o SliceTo(Filter(loadPlayers, withoutTeam), 400)

\* the rows of one build: a row per pool player whose ppg is above 0, a player
\* whose scan throws is skipped.  Rows are pushed as the workers finish; the
\* model takes them to finish in pool order.
GuardRows(pool, preset, passTd, outage) ==
    The({ The({ [k \in 1..Len(kept) |->
                    [player_id |-> pool[kept[k]].player_id,
                     full_name |-> pool[kept[k]].full_name,
                     position  |-> pool[kept[k]].position,
                     team      |-> pool[kept[k]].team,
                     ppg       |-> res[kept[k]].ppg]] :
                kept \in {AtIndices([i \in 1..Len(pool) |-> i],
                                    {i \in 1..Len(pool) : ~res[i].throws
                                                           /\ NumLt(Int2Num(0), res[i].ppg)})} }) :
          res \in {[i \in 1..Len(pool) |->
                      fetchLast50ForPlayer(pool[i], preset, passTd, outage)]} })

(***************************************************************************)
(* The requests the model sends.                                           *)
(***************************************************************************)
Routes == {"early", "late", "guard", "search"}

NoParams == [preset |-> "", passTd |-> "", pos |-> "", limit |-> "", exclude |-> "",
             ids |-> "", fast |-> "", seasons |-> "", q |-> ""]

Tuned(p) == p.limit # "" \/ p.exclude # ""

AllParams ==
    { p \in [preset : {"", "STANDARD"}, passTd : {"", "6"},
             pos : {"", "rb", "ALL", "KICKER"},
             limit : {"", "abc", "-3", "2.5"}, exclude : {"", "id7"},
             ids : {"", ",", "id7,id3"},
             fast : {"", "1"}, seasons : {"", "2024"}, q : {""}] :
        /\ (p.preset = "") = (p.passTd = "")
        /\ <<p.limit, p.exclude>> \in {<<"", "">>, <<"abc", "">>, <<"-3", "">>,
                                      <<"2.5", "id7">>, <<"", "id7">>}
        /\ p.ids # "" => p.pos = "" /\ p.fast = ""
        /\ p.fast # "" => p.pos = "ALL" }

\* the early draft and the guard route read no seasons parameter, the late
\* draft and the guard route no fast flag; the search route reads q alone
EarlyParams == {p \in AllParams : p.seasons = ""}
LateParams == {p \in AllParams : p.fast = ""}
GuardParams == {p \in AllParams : p.fast = "" /\ p.seasons = ""}
SearchParams == {[NoParams EXCEPT !.q = q] : q \in {"", "Back"}}

ParamsOf(rt) ==
    CASE rt = "early" -> EarlyParams
      [] rt = "late" -> LateParams
      [] rt = "guard" -> GuardParams
      [] rt = "search" -> SearchParams

\* requests that overlap in time are plain ones: one position or two ids
Plain(p) ==
    /\ ~Tuned(p)
    /\ p.fast = ""
    /\ p.q # "" \/ p.pos = "rb" \/ p.ids = "id7,id3"

\* what may arrive, by route and by the way requests arrive
Offered ==
    [rt \in Routes, arr \in {"sequential", "overlapping"} |->
        IF arr = "sequential" THEN ParamsOf(rt)
        ELSE {p \in ParamsOf(rt) : Plain(p)}]

(***************************************************************************)
(* Every build the routes can ask for, evaluated once: the player lists    *)
(* (one position, one player on the ids path, the pool of the guard        *)
(* route), the scoring configs and the season lists of the requests above. *)
(***************************************************************************)
PlayerLists ==
    {Filter(fetchPlayers, LAMBDA p : p.position = pos) : pos \in Range(POSITIONS)}
    \cup {<<fetchPlayers[i]>> : i \in 1..Len(fetchPlayers)}

SeasonLists == {DEFAULT_SEASONS} \cup {parseSeasons(p.seasons) : p \in AllParams}

\* the result of every build of route rt: the rows, or that it throws
BuildTable(rt) ==
    IF rt = "guard"
    THEN [k \in {GuardPool} \X {"PPR", "STANDARD"} \X {4, 6} \X {SEASONS} \X Outages |->
            [throws |-> FALSE, rows |-> GuardRows(k[1], k[2], k[3], k[5])]]
    ELSE IF rt = "search" THEN <<>>
    ELSE
      [k \in PlayerLists \X {"PPR", "STANDARD"} \X {4, 6}
             \X (IF rt = "late" THEN SeasonLists ELSE {DEFAULT_SEASONS}) \X Outages |->
          IF buildThrows(k[4], k[5]) THEN [throws |-> TRUE, rows |-> <<>>]
          ELSE [throws |-> FALSE,
                rows |-> IF rt = "late"
                         THEN buildProjectionsFor(k[1], k[2], k[3], k[4], k[5])
                         ELSE buildProjectionsForEarly(k[1], k[2], k[3], k[4], k[5])]]

(***************************************************************************)
(* Requests.  A request keeps its raw query parameters, the locals that    *)
(* live across an await, and its response once it has one.                 *)
(*   pc      where the handler is suspended; "done" = a Response was       *)
(*           returned, "crashed" = the handler's promise rejected          *)
(*   built   the cache keys this request invoked a build for               *)
(*   fetched the number of roster fetches this request issued              *)
(*   arrived the clock when the request arrived                            *)
(*   read    the cache entries whose rows went into the response: key, age *)
(*           when read, number of rows                                     *)
(*   missed  the cache keys this request found missing or stale (had: an   *)
(*           entry was there)                                              *)
(***************************************************************************)
NewReq(params) ==
    [preset |-> params.preset, passTd |-> params.passTd, pos |-> params.pos,
     limit |-> params.limit, exclude |-> params.exclude, ids |-> params.ids,
     fast |-> params.fast, seasons |-> params.seasons, q |-> params.q,
     pc |-> "start", j |-> 0, subset |-> <<>>, acc |-> <<>>,
     built |-> <<>>, fetched |-> 0, status |-> 0, players |-> <<>>,
     arrived |-> now, read |-> <<>>, missed |-> <<>>]

\* (url.searchParams.get('preset') || 'PPR').toUpperCase()
presetOf(r) == toUpperCase(IF r.preset # "" THEN r.preset ELSE "PPR")
\* route.ts: url.searchParams.get('preset') || 'PPR'
guardPresetOf(r) == IF r.preset # "" THEN r.preset ELSE "PPR"
\* Number(url.searchParams.get('passTd') || 4) === 6 ? 6 : 4
passTdOf(r) == IF (IF r.passTd # "" THEN Number(r.passTd) ELSE Int2Num(4)) = Int2Num(6)
               THEN 6 ELSE 4
\* clamp(Number(url.searchParams.get('limit') || 50), 1, 200); the early draft
\* and route.ts write Math.max(1, Math.min(200, ...)), the body of clamp
limitOf(r) == clamp(IF r.limit # "" THEN Number(r.limit) ELSE Int2Num(50),
                    Int2Num(1), Int2Num(200))
excludeOf(r) == Range(SplitIds(r.exclude))
posOf(r) == toUpperCase(r.pos)
\* the early draft passes no seasons to buildProjectionsFor
seasonsOf(r) == IF route = "late" THEN parseSeasons(r.seasons) ELSE DEFAULT_SEASONS

cacheKeyOf(r, tag) == <<presetOf(r), passTdOf(r), tag>>

\* cached && Date.now() - cached.at < STALE_MS
\* variants of the freshness test: the comparison reversed, the TTL forgotten
FreshReversed(cache, k) == k \in DOMAIN cache /\ now - cache[k].at >= STALE_MS
FreshForever(cache, k) == k \in DOMAIN cache

Fresh(cache, k) == k \in DOMAIN cache /\ now - cache[k].at < STALE_MS

MapSet(cache, k, v) == (k :> v) @@ cache

\* .sort((a, b) => b.ppg - a.ppg)
byPpgDesc(a, b) == NumLt(b.ppg, a.ppg)

\* variant of prune that forgets the exclude set
pruneKeepExcluded(rows, r) ==
    SliceTo(SortBy(rows, byPpgDesc), ToInteger(limitOf(r)))

\* .filter(r => !exclude.has(r.player_id)).sort(...).slice(0, limit)
prune(rows, r) ==
    LET kept(x) == x.player_id \notin excludeOf(r)
    IN  SliceTo(SortBy(Filter(rows, kept), byPpgDesc), ToInteger(limitOf(r)))

\* late draft, cache hit: the extra filter on the row's position
pruneHit(rows, r) ==
    LET kept(x) == x.player_id \notin excludeOf(r)
        samePos(x) == toUpperCase(x.position) = posOf(r)
    IN  IF route = "late"
        THEN SliceTo(SortBy(Filter(Filter(rows, kept), samePos), byPpgDesc),
                     ToInteger(limitOf(r)))
        ELSE prune(rows, r)

Respond(r, status, players) ==
    [r EXCEPT !.pc = "done", !.status = status, !.players = players]

\* an exception inside GET: the late draft catches it, the others do not
Throw(r) ==
    IF route = "late" THEN Respond(r, 500, <<>>)
    ELSE [r EXCEPT !.pc = "crashed"]

\* bookkeeping of a cache lookup
Hit(r, k, at, n) == [r EXCEPT !.read = Append(@, [key |-> k, age |-> now - at, n |-> n])]
Miss(r, k, had) == [r EXCEPT !.missed = Append(@, [key |-> k, had |-> had])]

AwaitRoster(r, pc) == [r EXCEPT !.pc = pc, !.fetched = @ + 1]
AwaitBuild(r, pc, key) == [r EXCEPT !.pc = pc, !.built = Append(@, key)]

\* the players a suspended build was called with
buildArg(r) == IF r.pc = "ids_build" THEN <<r.subset[r.j]>> ELSE r.subset

build(r, outage) ==
    upstream[<<buildArg(r), presetOf(r), passTdOf(r), seasonsOf(r), outage>>]

(***************************************************************************)
(* The synchronous loops of GET, run until the next await or the Response. *)
(***************************************************************************)
\* ids path (early 220-233, late 601-618): out is returned as it is
RECURSIVE IdsLoop(_, _, _, _)
IdsLoop(cache, r, j, out) ==
    IF j > Len(r.subset)
    THEN Respond([r EXCEPT !.j = j, !.acc = out], 200, out)
    ELSE LET k == cacheKeyOf(r, r.subset[j].player_id)
         IN  IF Fresh(cache, k)
             THEN IdsLoop(cache, Hit(r, k, cache[k].at, 1), j + 1, Append(out, cache[k].row))
             ELSE AwaitBuild(Miss([r EXCEPT !.j = j, !.acc = out], k, k \in DOMAIN cache),
                             "ids_build", k)

\* ALL path of the early draft (237-281)
RECURSIVE AllLoop(_, _, _, _)
AllLoop(cache, r, j, merged) ==
    IF j > Len(POSITIONS)
    THEN IF Len(merged) = 0
         THEN AwaitRoster([r EXCEPT !.j = 1, !.acc = merged], "fb_roster")
         ELSE Respond([r EXCEPT !.j = j, !.acc = merged], 200, prune(merged, r))
    ELSE LET k == cacheKeyOf(r, POSITIONS[j])
         IN  IF Fresh(cache, k)
             THEN AllLoop(cache, Hit(r, k, cache[k].at, Len(cache[k].rows)), j + 1,
                          merged \o cache[k].rows)
             ELSE IF r.fast = "1"
             THEN AllLoop(cache, Miss(r, k, k \in DOMAIN cache), j + 1, merged)
             ELSE AwaitRoster(Miss([r EXCEPT !.j = j, !.acc = merged], k, k \in DOMAIN cache),
                              "all_roster")

playersAt(pos) ==
    LET at(p) == toUpperCase(p.position) = pos IN Filter(fetchPlayers, at)

(***************************************************************************)
(* Actions of the early and late drafts.                                   *)
(***************************************************************************)
\* GET up to its first await (early 203-298, late 567-645)
GetStart(r) ==
    IF r.ids # ""
    THEN AwaitRoster(r, "ids_roster")
    ELSE IF route = "early" /\ posOf(r) = "ALL"
    THEN AllLoop(posCache, r, 1, <<>>)
    ELSE IF posOf(r) \notin Range(POSITIONS)
    THEN Respond(r, 400, <<>>)
    ELSE IF Fresh(posCache, cacheKeyOf(r, posOf(r)))
    THEN Respond(Hit(r, cacheKeyOf(r, posOf(r)), posCache[cacheKeyOf(r, posOf(r))].at,
                     Len(posCache[cacheKeyOf(r, posOf(r))].rows)),
                 200, pruneHit(posCache[cacheKeyOf(r, posOf(r))].rows, r))
    ELSE AwaitRoster(Miss(r, cacheKeyOf(r, posOf(r)),
                          cacheKeyOf(r, posOf(r)) \in DOMAIN posCache), "pos_roster")

Idle == \A i \in 1..Len(reqs) : reqs[i].pc \in {"done", "crashed", "retired"}

\* A finished request leaves the model when the next one arrives: its Response
\* has been returned and nothing refers to it any more.
Retired == [NewReq(NoParams) EXCEPT !.pc = "retired", !.arrived = 0]
Retire(rs) ==
    [i \in 1..Len(rs) |-> IF rs[i].pc \in {"done", "crashed"} THEN Retired ELSE rs[i]]

\* a request with parameters params may arrive now
Admit(params) ==
    /\ Len(reqs) < MaxReqs
    /\ arrivals = "sequential" => Idle
    /\ params \in Offered[route, arrivals]
    /\ Tuned(params) => tuned < MaxTuned
    /\ tuned' = IF Tuned(params) THEN tuned + 1 ELSE tuned

Receive(params) ==
    /\ route \in {"early", "late"}
    /\ Admit(params)
    /\ reqs' = Append(Retire(reqs), GetStart(NewReq(params)))
    /\ UNCHANGED <<route, arrivals, now, posCache, idsCache, projCache, building,
                   playersCache, outages, upstream>>

\* fetchPlayers() resolved
RosterResolve(i) ==
    /\ route \in {"early", "late"}
    /\ reqs[i].pc \in {"ids_roster", "pos_roster", "all_roster", "fb_roster"}
    /\ LET r == reqs[i]
           next ==
             CASE r.pc = "ids_roster" ->
                    LET wanted(p) == p.player_id \in Range(SplitIds(r.ids))
                    IN  IdsLoop(idsCache, [r EXCEPT !.subset = Filter(fetchPlayers, wanted)],
                                1, <<>>)
               [] r.pc = "pos_roster" ->
                    AwaitBuild([r EXCEPT !.subset = playersAt(posOf(r))], "pos_build",
                               cacheKeyOf(r, posOf(r)))
               [] r.pc = "all_roster" ->
                    AwaitBuild([r EXCEPT !.subset = playersAt(POSITIONS[r.j])], "all_build",
                               cacheKeyOf(r, POSITIONS[r.j]))
               [] r.pc = "fb_roster" ->
                    AwaitBuild([r EXCEPT !.subset = playersAt(POSITIONS[1])], "fb_build",
                               cacheKeyOf(r, POSITIONS[1]))
       IN  reqs' = [reqs EXCEPT ![i] = next]
    /\ UNCHANGED <<route, arrivals, now, posCache, idsCache, projCache, building,
                   playersCache, outages, tuned, upstream>>

\* fetchPlayers() rejected (network error, timeout, body that is not JSON)
RosterReject(i) ==
    /\ route \in {"early", "late"}
    /\ reqs[i].pc \in {"ids_roster", "pos_roster", "all_roster", "fb_roster"}
    /\ outages < MaxOutages
    /\ outages' = outages + 1
    /\ reqs' = [reqs EXCEPT ![i] = Throw(reqs[i])]
    /\ UNCHANGED <<route, arrivals, now, posCache, idsCache, projCache, building,
                   playersCache, tuned, upstream>>

\* buildProjectionsFor() threw
BuildReject(i) ==
    /\ route \in {"early", "late"}
    /\ reqs[i].pc \in {"ids_build", "pos_build", "all_build", "fb_build"}
    /\ \E outage \in Outages : build(reqs[i], outage).throws
    /\ outages < MaxOutages
    /\ outages' = outages + 1
    /\ reqs' = [reqs EXCEPT ![i] = Throw(reqs[i])]
    /\ UNCHANGED <<route, arrivals, now, posCache, idsCache, projCache, building,
                   playersCache, tuned, upstream>>

\* buildProjectionsFor() resolved: the entry is stored and GET goes on
BuildResolve(i, outage) ==
    /\ route \in {"early", "late"}
    /\ reqs[i].pc \in {"ids_build", "pos_build", "all_build", "fb_build"}
    /\ ~build(reqs[i], outage).throws
    /\ outage # "none" => outages < MaxOutages
    /\ outages' = IF outage # "none" THEN outages + 1 ELSE outages
    /\ \E r \in {reqs[i]}, rows \in {build(reqs[i], outage).rows} :
         LET key == r.built[Len(r.built)]
         IN
           CASE r.pc = "ids_build" ->
                  LET cache == MapSet(idsCache, key, [at |-> now, row |-> rows[1]])
                  IN  /\ idsCache' = cache
                      /\ posCache' = posCache
                      /\ reqs' = [reqs EXCEPT ![i] =
                            IdsLoop(cache, r, r.j + 1, Append(r.acc, rows[1]))]
             [] r.pc = "pos_build" ->
                  LET normalized == IF route = "late"
                                    THEN [n \in 1..Len(rows) |->
                                            [rows[n] EXCEPT !.position = posOf(r)]]
                                    ELSE rows
                  IN  /\ posCache' = MapSet(posCache, key, [at |-> now, rows |-> normalized])
                      /\ idsCache' = idsCache
                      /\ reqs' = [reqs EXCEPT ![i] = Respond(r, 200, prune(normalized, r))]
             [] r.pc = "all_build" ->
                  LET cache == MapSet(posCache, key, [at |-> now, rows |-> rows])
                  IN  /\ posCache' = cache
                      /\ idsCache' = idsCache
                      /\ reqs' = [reqs EXCEPT ![i] = AllLoop(cache, r, r.j + 1, r.acc \o rows)]
             [] r.pc = "fb_build" ->
                  /\ posCache' = MapSet(posCache, key, [at |-> now, rows |-> rows])
                  /\ idsCache' = idsCache
                  /\ reqs' = [reqs EXCEPT ![i] =
                        IF r.j < Len(POSITIONS)
                        THEN AwaitBuild([r EXCEPT !.j = r.j + 1, !.acc = r.acc \o rows,
                                                  !.subset = playersAt(POSITIONS[r.j + 1])],
                                        "fb_build", cacheKeyOf(r, POSITIONS[r.j + 1]))
                        ELSE Respond([r EXCEPT !.acc = r.acc \o rows], 200,
                                     prune(r.acc \o rows, r))]
    /\ UNCHANGED <<route, arrivals, now, projCache, building, playersCache, tuned, upstream>>

(***************************************************************************)
(* Actions of the guard route (route.ts lines 213-299).                    *)
(***************************************************************************)
\* the freshness test of ensureProjections (lines 219-223)
GuardFresh(cache, r) ==
    /\ cache.hit
    /\ now - cache.at < BUILD_TTL_MS
    /\ cache.preset = guardPresetOf(r)
    /\ cache.passTd = passTdOf(r)

\* GET after ensureProjections returned (lines 279-298)
GuardRespond(r, cache) ==
    LET rows == IF cache.hit THEN cache.rows ELSE <<>>
        wanted(x) == x.player_id \in Range(SplitIds(r.ids))
        atPos(x) == x.position = posOf(r)
        kept(x) == x.player_id \notin excludeOf(r)
        byPos == IF posOf(r) # "" /\ posOf(r) \in Range(POSITIONS)
                 THEN Filter(rows, atPos) ELSE rows
        filtered == IF r.ids # "" THEN Filter(rows, wanted)
                    ELSE SliceTo(SortBy(Filter(byPos, kept), byPpgDesc),
                                 ToInteger(limitOf(r)))
    IN  Respond(IF cache.hit
                THEN Hit(r, <<cache.preset, cache.passTd, "*">>, cache.at, Len(cache.rows))
                ELSE r,
                200, filtered)

\* the requests suspended at "await _building" of line 225
Waiters == {k \in 1..Len(reqs) : reqs[k].pc = "g_wait"}

\* GET up to its first await: a fresh cache is answered at once, a build in
\* flight is waited for, otherwise this request starts the build
GuardReceive(params) ==
    /\ route = "guard"
    /\ Admit(params)
    /\ LET key == <<guardPresetOf(NewReq(params)), passTdOf(NewReq(params)), "*">>
           r == IF GuardFresh(projCache, NewReq(params)) THEN NewReq(params)
                ELSE Miss(NewReq(params), key, projCache.hit)
       IN  IF GuardFresh(projCache, r)
           THEN /\ reqs' = Append(Retire(reqs), GuardRespond(r, projCache))
                /\ building' = building
           ELSE IF building # 0
           THEN /\ reqs' = Append(Retire(reqs), [r EXCEPT !.pc = "g_wait"])
                /\ building' = building
           ELSE /\ building' = Len(reqs) + 1
                /\ reqs' = Append(Retire(reqs),
                      IF playersCache.hit /\ now - playersCache.at < BUILD_TTL_MS
                      THEN AwaitBuild(r, "g_build", key)
                      ELSE AwaitRoster(r, "g_roster"))
    /\ UNCHANGED <<route, arrivals, now, posCache, idsCache, projCache, playersCache,
                   outages, upstream>>

\* loadPlayers: the roster fetch resolved, the workers start
GuardRosterResolve(i) ==
    /\ route = "guard"
    /\ reqs[i].pc = "g_roster"
    /\ playersCache' = [hit |-> TRUE, at |-> now]
    /\ reqs' = [reqs EXCEPT ![i] =
          AwaitBuild(@, "g_build", <<guardPresetOf(@), passTdOf(@), "*">>)]
    /\ UNCHANGED <<route, arrivals, now, posCache, idsCache, projCache, building,
                   outages, tuned, upstream>>

\* the roster fetch rejected, in an ensureProjections that clears _building
\* after the await instead of in a finally clause
GuardRosterRejectNoFinally(i) ==
    /\ route = "guard"
    /\ reqs[i].pc = "g_roster"
    /\ outages < MaxOutages
    /\ outages' = outages + 1
    /\ building' = building
    /\ reqs' = [k \in 1..Len(reqs) |->
                  IF k = i \/ k \in Waiters THEN Throw(reqs[k]) ELSE reqs[k]]
    /\ UNCHANGED <<route, arrivals, now, posCache, idsCache, projCache, playersCache,
                   tuned, upstream>>

\* loadPlayers: the roster fetch rejected; _building rejects, so the builder's
\* GET and every waiter's GET reject, and the finally clause clears _building
GuardRosterReject(i) ==
    /\ route = "guard"
    /\ reqs[i].pc = "g_roster"
    /\ outages < MaxOutages
    /\ outages' = outages + 1
    /\ building' = 0
    /\ reqs' = [k \in 1..Len(reqs) |->
                  IF k = i \/ k \in Waiters THEN Throw(reqs[k]) ELSE reqs[k]]
    /\ UNCHANGED <<route, arrivals, now, posCache, idsCache, projCache, playersCache,
                   tuned, upstream>>

\* every worker finished: the cache is replaced, _building resolves, and the
\* builder and every waiter go on to their Response in the same turn
GuardBuildSettle(i, outage) ==
    /\ route = "guard"
    /\ reqs[i].pc = "g_build"
    /\ outage # "none" => outages < MaxOutages
    /\ outages' = IF outage # "none" THEN outages + 1 ELSE outages
    /\ \E r \in {reqs[i]} :
       \E cache \in {[hit |-> TRUE, at |-> now, preset |-> guardPresetOf(r),
                      passTd |-> passTdOf(r),
                      rows |-> upstream[<<GuardPool, guardPresetOf(r), passTdOf(r),
                                          SEASONS, outage>>].rows]} :
          /\ projCache' = cache
          /\ reqs' = [k \in 1..Len(reqs) |->
                        IF k = i \/ k \in Waiters THEN GuardRespond(reqs[k], cache)
                        ELSE reqs[k]]
    /\ building' = 0
    /\ UNCHANGED <<route, arrivals, now, posCache, idsCache, playersCache, tuned, upstream>>

(***************************************************************************)
(* Actions of the player search route (players/search/route.ts).           *)
(***************************************************************************)
\* GET up to its await: no query text is answered with an empty result list
SearchReceive(params) ==
    /\ route = "search"
    /\ Admit(params)
    /\ reqs' = Append(Retire(reqs),
          IF toLowerCase(params.q) = "" THEN Respond(NewReq(params), 200, <<>>)
          ELSE AwaitRoster(NewReq(params), "s_roster"))
    /\ UNCHANGED <<route, arrivals, now, posCache, idsCache, projCache, building,
                   playersCache, outages, upstream>>

\* the roster arrived: the first 12 pool players whose name contains q
SearchResolve(i) ==
    /\ route = "search"
    /\ reqs[i].pc = "s_roster"
    /\ LET inPool(p) == p.full_name # "" /\ p.position \in {"QB", "RB", "WR", "TE"}
           hit(p) == includes(toLowerCase(p.full_name), toLowerCase(reqs[i].q))
       IN  reqs' = [reqs EXCEPT ![i] =
                      Respond(@, 200, SliceTo(Filter(Filter(Roster, inPool), hit), 12))]
    /\ UNCHANGED <<route, arrivals, now, posCache, idsCache, projCache, building,
                   playersCache, outages, tuned, upstream>>

\* the roster fetch rejected: nothing in GET catches it
SearchReject(i) ==
    /\ route = "search"
    /\ reqs[i].pc = "s_roster"
    /\ outages < MaxOutages
    /\ outages' = outages + 1
    /\ reqs' = [reqs EXCEPT ![i] = Throw(@)]
    /\ UNCHANGED <<route, arrivals, now, posCache, idsCache, projCache, building,
                   playersCache, tuned, upstream>>

\* Time passes, one staleness window of the route at a time.  A request is
\* served within one window: no upstream fetch lasts for hours.
TICK_MS == IF route = "guard" THEN BUILD_TTL_MS ELSE STALE_MS

Tick ==
    /\ now < MaxTicks * TICK_MS
    /\ Idle
    /\ now' = now + TICK_MS
    /\ UNCHANGED <<route, arrivals, posCache, idsCache, projCache, building, playersCache,
                   reqs, outages, tuned, upstream>>

(***************************************************************************)
(* The specifications.                                                     *)
(***************************************************************************)
Start ==
    /\ fw = Unused
    /\ wp = Unused
    /\ calc = Unused
    /\ ui = Unused
    /\ route \in Routes
    /\ now = 0
    /\ building = 0
    /\ reqs = <<>>
    /\ outages = 0
    /\ tuned = 0
    /\ upstream = BuildTable(route)

\* the caches of a process that has just started
Cold ==
    /\ posCache = <<>>
    /\ idsCache = <<>>
    /\ projCache = [hit |-> FALSE]
    /\ playersCache = [hit |-> FALSE]

\* The caches after the process has answered, at time 0 and with every page
\* answered, default requests for the four positions (early and late draft:
\* pos=QB, RB, WR, TE) or one default request (guard route).
Warm ==
    /\ posCache =
          IF route \in {"early", "late"}
          THEN [k \in {<<"PPR", 4, POSITIONS[j]>> : j \in 1..Len(POSITIONS)} |->
                  [at |-> 0,
                   rows |-> upstream[<<playersAt(k[3]), "PPR", 4,
                                       IF route = "late" THEN parseSeasons("")
                                       ELSE DEFAULT_SEASONS, "none">>].rows]]
          ELSE <<>>
    /\ idsCache = <<>>
    /\ projCache =
          IF route = "guard"
          THEN [hit |-> TRUE, at |-> 0, preset |-> "PPR", passTd |-> 4,
                rows |-> upstream[<<GuardPool, "PPR", 4, SEASONS, "none">>].rows]
          ELSE [hit |-> FALSE]
    /\ playersCache = IF route = "guard" THEN [hit |-> TRUE, at |-> 0] ELSE [hit |-> FALSE]

\* Spec: a request arrives when the one before it has been answered
Init == Start /\ Cold /\ arrivals = "sequential"

\* SpecConc: a request may arrive while others are suspended at an await
InitConc == Start /\ Cold /\ arrivals = "overlapping"

\* SpecWarm: as Spec, from the caches of a process that has served before
InitWarm == Start /\ Warm /\ arrivals = "sequential"

Next ==
    \/ Tick /\ UNCHANGED bench
    \/ \E p \in AllParams : Receive(p) /\ UNCHANGED bench
    \/ \E i \in 1..Len(reqs) : RosterResolve(i) /\ UNCHANGED bench
    \/ \E i \in 1..Len(reqs) : RosterReject(i) /\ UNCHANGED bench
    \/ \E i \in 1..Len(reqs) : BuildReject(i) /\ UNCHANGED bench
    \/ \E i \in 1..Len(reqs), outage \in Outages : BuildResolve(i, outage) /\ UNCHANGED bench
    \/ \E p \in AllParams : GuardReceive(p) /\ UNCHANGED bench
    \/ \E i \in 1..Len(reqs) : GuardRosterResolve(i) /\ UNCHANGED bench
    \/ \E i \in 1..Len(reqs) : GuardRosterReject(i) /\ UNCHANGED bench
    \/ \E i \in 1..Len(reqs), outage \in Outages : GuardBuildSettle(i, outage) /\ UNCHANGED bench
    \/ \E p \in SearchParams : SearchReceive(p) /\ UNCHANGED bench
    \/ \E i \in 1..Len(reqs) : SearchResolve(i) /\ UNCHANGED bench
    \/ \E i \in 1..Len(reqs) : SearchReject(i) /\ UNCHANGED bench

Spec == Init /\ [][Next]_vars

SpecConc == InitConc /\ [][Next]_vars

SpecWarm == InitWarm /\ [][Next]_vars

(***************************************************************************)
(* fetchWeek on its own: one caller, one (season, week) key, the three     *)
(* candidate URLs, and the week cache of the routes that keep one.         *)
(***************************************************************************)

\* calls of fetchWeek one behaviour makes
MaxCalls == 2

\* the three copies: without timeout or cache, with the 12 s abort, and with
\* the week cache
FetchVariants == {"early", "late", "cached"}

\* 15 * 60 * 1000
CACHE_TTL_MS == 900000

\* two weekly pages that differ
PageA == <<[player_id |-> "id7", rush_yd |-> 50]>>
PageB == <<[player_id |-> "id3", rush_yd |-> 20], [player_id |-> "id7", rush_yd |-> 5]>>

\* JSON values
JArr(items) == [t |-> "array", v |-> items]
JObj(fields) == [t |-> "object", v |-> fields]
JNull == [t |-> "null", v |-> <<>>]

\* what one candidate URL can do: the fetch rejects, the abort timer fires (or
\* the platform's own timeout rejects the fetch), the status is not OK, the
\* body is not JSON, or the status is OK with one of these bodies
Candidates ==
    {"throws", "timeout", "notok", "badjson",
     "A", "B", "wrapA", "wrapB", "object", "null"}

\* r.ok of a candidate whose fetch resolved
okOf(c) == c \notin {"notok"}

\* the value of r.json() of a candidate
jsonOf(c) ==
    CASE c = "A" -> JArr(PageA)
      [] c = "B" -> JArr(PageB)
      [] c = "wrapA" -> JObj([stats |-> JArr(PageA)])
      [] c = "wrapB" -> JObj([stats |-> JArr(PageB)])
      [] c = "object" -> JObj([error |-> JNull])
      [] OTHER -> JNull

\* Array.isArray(data) ? data : Array.isArray(data?.stats) ? data.stats : []
normalize(data) ==
    IF data.t = "array" THEN data.v
    ELSE IF data.t = "object" /\ "stats" \in DOMAIN data.v /\ data.v.stats.t = "array"
         THEN data.v.stats.v
    ELSE <<>>

\* the body of the loop over the urls for one candidate, json() moved out of
\* the try block
tryCandidateUnguarded(c) ==
    IF c \in {"throws", "timeout"} THEN [to |-> "next"]
    ELSE IF ~okOf(c) THEN [to |-> "next"]
    ELSE IF c = "badjson" THEN [to |-> "throw"]
    ELSE [to |-> "return", arr |-> normalize(jsonOf(c))]

\* the body of the loop over the urls for one candidate: try { res = await
\* fetch; if (res.ok) return normalize(await res.json()) } catch {}
tryCandidate(c) ==
    IF c \in {"throws", "timeout"} THEN [to |-> "next"]
    ELSE IF ~okOf(c) THEN [to |-> "next"]
    ELSE IF c = "badjson" THEN [to |-> "next"]
    ELSE [to |-> "return", arr |-> normalize(jsonOf(c))]

NoEntry == [has |-> FALSE, at |-> 0, arr |-> <<>>]

\* ts && now - ts < CACHE_TTL_MS && weekCache.has(key)
weekCacheHit(variant, cache, t) ==
    variant = "cached" /\ cache.has /\ t - cache.at < CACHE_TTL_MS

\* weekCache.set(key, arr); weekCacheTime.set(key, now)
weekCacheSet(variant, cache, t, arr) ==
    IF variant = "cached" THEN [has |-> TRUE, at |-> t, arr |-> arr] ELSE cache

\* fetchWeek up to its first await: the week cache answers, or the first
\* candidate is fetched
FwCall(plan) ==
    /\ fw.pc \in {"idle", "done"}
    /\ fw.calls < MaxCalls
    /\ IF weekCacheHit(fw.variant, fw.cache, fw.now)
       THEN fw' = [fw EXCEPT !.pc = "done", !.calls = @ + 1, !.plan = plan,
                             !.k = 0, !.t0 = fw.now, !.tried = <<>>,
                             !.from = "cache", !.prev = fw.result,
                             !.result = fw.cache.arr]
       ELSE fw' = [fw EXCEPT !.pc = "try", !.calls = @ + 1, !.plan = plan,
                             !.k = 1, !.t0 = fw.now, !.tried = <<1>>,
                             !.from = "net", !.prev = fw.result,
                             !.result = <<>>]
    /\ UNCHANGED <<wp, calc, ui>>
    /\ UNCHANGED service

\* the candidate being awaited settles: return its array, go on to the next
\* url, or fall out of the loop and return []
FwSettle ==
    /\ fw.pc = "try"
    /\ \E step \in {tryCandidate(fw.plan[fw.k])} :
         CASE step.to = "return" ->
                fw' = [fw EXCEPT !.pc = "done", !.result = step.arr,
                                 !.cache = weekCacheSet(fw.variant, @, fw.t0, step.arr)]
           [] step.to = "throw" ->
                fw' = [fw EXCEPT !.pc = "threw"]
           [] step.to = "next" /\ fw.k < Len(fw.plan) ->
                fw' = [fw EXCEPT !.k = @ + 1, !.tried = Append(@, fw.k + 1)]
           [] OTHER ->
                fw' = [fw EXCEPT !.pc = "done", !.result = <<>>,
                                 !.cache = weekCacheSet(fw.variant, @, fw.t0, <<>>)]
    /\ UNCHANGED <<wp, calc, ui>>
    /\ UNCHANGED service

\* the clock passes the lifetime of a week cache entry
FwTick ==
    /\ fw.pc # "unused"
    /\ fw.now < MaxTicks * CACHE_TTL_MS
    /\ fw' = [fw EXCEPT !.now = @ + CACHE_TTL_MS]
    /\ UNCHANGED <<wp, calc, ui>>
    /\ UNCHANGED service

\* no route module runs
ServiceOff ==
    /\ route = "none"
    /\ arrivals = <<>>
    /\ now = 0
    /\ posCache = <<>>
    /\ idsCache = <<>>
    /\ projCache = <<>>
    /\ building = 0
    /\ playersCache = <<>>
    /\ reqs = <<>>
    /\ outages = 0
    /\ tuned = 0
    /\ upstream = <<>>

InitFetch ==
    /\ ServiceOff
    /\ wp = Unused
    /\ calc = Unused
    /\ ui = Unused
    /\ \E variant \in FetchVariants :
         fw = [pc |-> "idle", variant |-> variant, calls |-> 0, now |-> 0,
               cache |-> NoEntry, plan |-> <<>>, k |-> 0, t0 |-> 0,
               tried |-> <<>>, from |-> "net", prev |-> <<>>, result |-> <<>>]

NextFetch ==
    \/ \E plan \in [1..3 -> Candidates] : FwCall(plan)
    \/ FwSettle
    \/ FwTick

SpecFetch == InitFetch /\ [][NextFetch]_vars

(***************************************************************************)
(* withTimeout on its own: one caller (fetchWeek over its three urls, or   *)
(* fetchPlayers over its one), the abort timer of each request, and a      *)
(* clock.  A request has two stages: the fetch promise, which settles when *)
(* the response headers arrive, and the reading of the body by r.json().   *)
(***************************************************************************)

\* const FETCH_TIMEOUT_MS = 12000
FETCH_TIMEOUT_MS == 12000

\* how many timeouts long the clock of one behaviour runs
MaxWait == 3

\* the clock advances by half a timeout
TimeoutStep == FETCH_TIMEOUT_MS \div 2

TimeoutCallers == {"fetchWeek", "fetchPlayers"}

\* what the upstream does with one request: the connection fails, no header
\* ever arrives, the status is not OK, or the status is OK and the body is a
\* page, is not JSON, or never ends
Responses == {"reject", "silent", "notok", "page", "badjson", "stall"}

\* the urls a caller tries in turn
urlsOf(caller) == IF caller = "fetchWeek" THEN 3 ELSE 1

\* const ctrl = new AbortController(); const t = setTimeout(() => ctrl.abort(), ms);
\* return fetch(url, { ...init, signal: ctrl.signal })
withTimeout(st, k) ==
    [st EXCEPT !.pc = "fetch", !.k = k, !.since = st.now, !.armed = TRUE,
               !.sent = @ + 1]

\* the catch block of fetchWeek (try the next url, return [] after the last),
\* fetchPlayers has none and rejects
failed(st) ==
    IF st.caller = "fetchPlayers" THEN [st EXCEPT !.pc = "threw", !.armed = FALSE]
    ELSE IF st.k < urlsOf(st.caller) THEN withTimeout([st EXCEPT !.armed = FALSE], st.k + 1)
    ELSE [st EXCEPT !.pc = "done", !.armed = FALSE, !.result = <<>>]

\* a call of fetchWeek or fetchPlayers up to its first await
WtCall(plan) ==
    /\ fw.pc = "idle"
    /\ Len(plan) = urlsOf(fw.caller)
    /\ fw' = withTimeout([fw EXCEPT !.plan = plan], 1)
    /\ UNCHANGED <<wp, calc, ui>>
    /\ UNCHANGED service

\* the fetch promise settles before the timer fires: .finally(() =>
\* clearTimeout(t)), then the caller goes on to read the body of an OK
\* response, or to its failure path
WtHeaders ==
    /\ fw.pc = "fetch"
    /\ fw.plan[fw.k] # "silent"
    /\ IF fw.plan[fw.k] = "reject" THEN fw' = failed(fw)
       ELSE IF fw.plan[fw.k] = "notok"
            THEN fw' = IF fw.caller = "fetchWeek" THEN failed(fw)
                       ELSE [fw EXCEPT !.pc = "body", !.armed = FALSE]
       ELSE fw' = [fw EXCEPT !.pc = "body", !.armed = FALSE]
    /\ UNCHANGED <<wp, calc, ui>>
    /\ UNCHANGED service

\* the timer fires: ctrl.abort() rejects the fetch promise
WtAbort ==
    /\ fw.pc \in {"fetch", "body"}
    /\ fw.armed
    /\ fw.now >= fw.since + FETCH_TIMEOUT_MS
    /\ fw' = [failed(fw) EXCEPT !.aborted = @ + 1]
    /\ UNCHANGED <<wp, calc, ui>>
    /\ UNCHANGED service

\* r.json() settles: the caller returns the page, or takes its failure path
\* when the body is not JSON
WtBody ==
    /\ fw.pc = "body"
    /\ fw.plan[fw.k] # "stall"
    /\ IF fw.plan[fw.k] = "page"
       THEN fw' = [fw EXCEPT !.pc = "done", !.result = PageA]
       ELSE fw' = failed(fw)
    /\ UNCHANGED <<wp, calc, ui>>
    /\ UNCHANGED service

\* the clock advances; an armed timer fires when it is due, so the clock does
\* not pass its deadline
WtTick ==
    /\ fw.pc \in {"fetch", "body"}
    /\ fw.now < MaxWait * FETCH_TIMEOUT_MS
    /\ fw.armed => fw.now + TimeoutStep <= fw.since + FETCH_TIMEOUT_MS
    /\ fw' = [fw EXCEPT !.now = @ + TimeoutStep]
    /\ UNCHANGED <<wp, calc, ui>>
    /\ UNCHANGED service

InitTimeout ==
    /\ ServiceOff
    /\ wp = Unused
    /\ calc = Unused
    /\ ui = Unused
    /\ \E caller \in TimeoutCallers :
         fw = [pc |-> "idle", caller |-> caller, now |-> 0, plan |-> <<>>, k |-> 0,
               since |-> 0, armed |-> FALSE, sent |-> 0, aborted |-> 0,
               result |-> <<>>]

NextTimeout ==
    \/ \E n \in {1, 3} : \E plan \in [1..n -> Responses] : WtCall(plan)
    \/ WtHeaders
    \/ WtAbort
    \/ WtBody
    \/ WtTick

SpecTimeout == InitTimeout /\ [][NextTimeout]_vars

(***************************************************************************)
(* The worker pools on their own: fetchWeeksBatched, and the GET handlers  *)
(* of the stats route and of its earlier draft, which collect one player's *)
(* weekly records.                                                         *)
(***************************************************************************)

\* workers of a pool (MAX_CONCURRENCY is 6 in fetchWeeksBatched and 4 in the
\* stats route)
MaxWorkers == 2

Workers == 1..MaxWorkers

PoolVariants == {"batched", "stats", "draft"}

\* jobs: for (const s of seasons) for (let w = 1; w <= 18; w++)
JobsOf(seasons) ==
    [j \in 1..(Len(seasons) * NumWeeks) |->
        [season |-> seasons[((j - 1) \div NumWeeks) + 1], week |-> ((j - 1) % NumWeeks) + 1]]

\* results[j] = page, appended after the results that are already there
storePush(results, j, page) ==
    ((Cardinality(DOMAIN results) + 1) :> page) @@ results

\* results[j] = page
store(results, j, page) ==
    (j :> page) @@ results

\* worker of fetchWeeksBatched that starts its jobs without awaiting them
workerNoAwait(w, st) ==
    LET n == Len(JobsOf(st.seasons))
        J == st.i..n
    IN  [st EXCEPT !.i = n + 1,
                   !.inflight = @ \cup {[w |-> w, j |-> j, season |-> JobsOf(st.seasons)[j].season,
                                         week |-> JobsOf(st.seasons)[j].week] : j \in J},
                   !.started = @ \o [k \in 1..(n - st.i + 1) |-> st.i + k - 1],
                   !.exited = @ \cup {w}]

\* worker of fetchWeeksBatched from the head of its loop to its next await:
\* while (i < jobs.length) { const j = i++; results[j] = await jobs[j]() }
\* (slots are counted from 1)
worker(w, st) ==
    IF st.i <= Len(JobsOf(st.seasons))
    THEN [st EXCEPT !.i = @ + 1,
                    !.inflight = @ \cup {[w |-> w, j |-> st.i, season |-> JobsOf(st.seasons)[st.i].season,
                                          week |-> JobsOf(st.seasons)[st.i].week]},
                    !.started = Append(@, st.i)]
    ELSE [st EXCEPT !.exited = @ \cup {w}]

\* Array.from({ length: MAX_CONCURRENCY }, worker): the workers are called one
\* after the other, each running up to its first await
RECURSIVE startWorkers(_, _)
startWorkers(k, st) ==
    IF k > MaxWorkers THEN st
    ELSE startWorkers(k + 1, The({worker(k, s0) : s0 \in {st}}))

IdlePool(variant, seasons, id, outage) ==
    [pc |-> "idle", variant |-> variant, seasons |-> seasons, id |-> id, outage |-> outage,
     i |-> 1, sIdx |-> 0, week |-> 0, collected |-> 0,
     inflight |-> {}, started |-> <<>>, settled |-> <<>>, exited |-> {}, rejected |-> FALSE,
     results |-> <<>>, out |-> <<>>]

\* fetchWeeksBatched(seasons) up to await Promise.all(workers)
BatchedCall ==
    /\ wp.pc = "idle"
    /\ wp.variant = "batched"
    /\ wp' = startWorkers(1, [wp EXCEPT !.pc = "run"])
    /\ UNCHANGED <<fw, calc, ui>>
    /\ UNCHANGED service

\* the fetch of worker w resolves: the page is stored and the worker goes round
\* its loop
BatchedSettle(w) ==
    /\ wp.pc = "run"
    /\ wp.variant = "batched"
    /\ \E job \in {x \in wp.inflight : x.w = w} :
         \E st \in {[wp EXCEPT !.inflight = @ \ {job}, !.settled = Append(@, job.j),
                               !.results = store(@, job.j, fetchWeek(job.season, job.week, wp.outage))]} :
            wp' = worker(w, st)
    /\ UNCHANGED <<fw, calc, ui>>
    /\ UNCHANGED service

\* every worker has returned: Promise.all resolves and results is returned
BatchedReturn ==
    /\ wp.pc = "run"
    /\ wp.variant = "batched"
    /\ wp.exited = Workers
    /\ wp' = [wp EXCEPT !.pc = "returned"]
    /\ UNCHANGED <<fw, calc, ui>>
    /\ UNCHANGED service

STATS_DEFAULT == "2020,2021,2022,2023,2024"

\* the seasons parameters of the requests to the stats handlers
PoolSeasonParams == {"", "2024", "2023,2024", "2024,2023"}

PoolIds == {"id7", "id3", "id9"}

\* stats route: (seasons || default).split(',').map(Number).filter(finite)
\* .sort((a, b) => b - a)
statsSeasons(param) ==
    LET text == IF param = "" THEN STATS_DEFAULT ELSE param
        nums == [i \in 1..Len(Split(text)) |-> Number(Split(text)[i])]
        kept == Filter(nums, isFinite)
        newer(a, b) == a > b
    IN  SortBy([i \in 1..Len(kept) |-> kept[i].num], newer)

\* stats draft: (seasons || default).split(',').map(trim).filter(Boolean), the
\* season of a record being Number(s)
draftSeasons(param) ==
    LET texts == SplitIds(IF param = "" THEN STATS_DEFAULT ELSE param)
    IN  [i \in 1..Len(texts) |-> Number(texts[i]).num]

\* pickNum(s, keys) ?? 0
pickOr0(s, keys) == IF pickNum(s, keys) = 0 THEN 0 ELSE s[keys[pickNum(s, keys)]]

\* computePprFromRaw, in hundredths of a point
computePprFromRaw(s) ==
    pickOr0(s, <<"pass_yd", "passing_yards">>) * 4
    + pickOr0(s, <<"pass_td", "passing_tds">>) * 400
    - pickOr0(s, <<"pass_int", "interceptions">>) * 100
    + pickOr0(s, <<"rush_yd", "rushing_yards">>) * 10
    + pickOr0(s, <<"rush_td", "rushing_tds">>) * 600
    + pickOr0(s, <<"rec_yd", "receiving_yards">>) * 10
    + pickOr0(s, <<"rec_td", "receiving_tds">>) * 600
    + pickOr0(s, <<"rec", "receptions">>) * 100

\* the record pushed to out: the picked fields, pts_ppr computed from the raw
\* fields when the row has none
StatsRecord(s, id, season, wk) ==
    IF pickNum(s, <<"pts_ppr", "ppr_points">>) # 0
    THEN GuardStat(s, id, season, wk)
    ELSE ("pts_ppr" :> computePprFromRaw(s)) @@ GuardStat(s, id, season, wk)

\* one turn of a handler's loop over the page arr: "throw" (a property of a
\* null entry is read by find), "skip" (continue) or the record to push
StatsScan(variant, arr, id, season, wk) ==
    LET match == {i \in 1..Len(arr) : Has(arr[i], "player_id") /\ arr[i].player_id = id}
        stop == IF match = {} THEN Len(arr) + 1 ELSE SetMin(match)
    IN  IF Len(arr) = 0 THEN [kind |-> "skip"]
        ELSE IF \E i \in 1..Len(arr) : arr[i] = NullRow /\ i < stop THEN [kind |-> "throw"]
        ELSE IF match = {} THEN [kind |-> "skip"]
        ELSE [kind |-> "stat",
              stat |-> StatsRecord(IF Has(arr[stop], "stats") THEN arr[stop].stats
                                   ELSE IF variant = "stats" THEN arr[stop] ELSE <<>>,
                                   id, season, wk)]

\* worker of the stats route from the head of its loop to its next await:
\* while (week >= 1 && collected < TARGET) { const wk = week--; await fetchWeek }
statsWorker(w, st) ==
    IF st.week >= 1 /\ st.collected < TARGET
    THEN [st EXCEPT !.week = @ - 1,
                    !.inflight = @ \cup {[w |-> w, j |-> 0, season |-> st.seasons[st.sIdx],
                                          week |-> st.week]}]
    ELSE [st EXCEPT !.exited = @ \cup {w}]

\* for (let i = 0; i < MAX_CONCURRENCY; i++) queue.push(worker())
RECURSIVE startStatsWorkers(_, _)
startStatsWorkers(k, st) ==
    IF k > MaxWorkers THEN st
    ELSE startStatsWorkers(k + 1, The({statsWorker(k, s0) : s0 \in {st}}))

\* out.sort((a, b) => a.season === b.season ? a.week - b.week : a.season - b.season)
sortWeeks(out) ==
    LET earlier(a, b) == IF a.season = b.season THEN a.week < b.week ELSE a.season < b.season
    IN  SortBy(out, earlier)

\* the stats route from the top of its loop over the seasons: the workers of
\* the next season are started, or out is sorted and returned
statsAdvance(st) ==
    IF st.sIdx < Len(st.seasons) /\ st.collected < TARGET
    THEN startStatsWorkers(1, [st EXCEPT !.sIdx = @ + 1, !.week = PoolWeeks, !.exited = {}])
    ELSE [st EXCEPT !.pc = "returned", !.out = sortWeeks(@)]

\* GET of the stats route up to its first await Promise.all(queue)
StatsCall ==
    /\ wp.pc = "idle"
    /\ wp.variant = "stats"
    /\ wp' = statsAdvance([wp EXCEPT !.pc = "run"])
    /\ UNCHANGED <<fw, calc, ui>>
    /\ UNCHANGED service

\* the fetch of worker w resolves: the player's row is looked up and pushed,
\* and the worker goes round its loop; a worker that throws rejects the request
StatsSettle(w) ==
    /\ wp.pc \in {"run", "threw"}
    /\ wp.variant = "stats"
    /\ \E job \in {x \in wp.inflight : x.w = w} :
         \E scan \in {StatsScan("stats", fetchWeek(job.season, job.week, wp.outage),
                                wp.id, job.season, job.week)} :
            CASE scan.kind = "throw" ->
                   wp' = [wp EXCEPT !.inflight = @ \ {job}, !.exited = @ \cup {w},
                                    !.rejected = TRUE, !.pc = "threw"]
              [] scan.kind = "skip" ->
                   wp' = statsWorker(w, [wp EXCEPT !.inflight = @ \ {job}])
              [] OTHER ->
                   wp' = statsWorker(w, [wp EXCEPT !.inflight = @ \ {job},
                                                   !.out = Append(@, scan.stat),
                                                   !.collected = @ + 1])
    /\ UNCHANGED <<fw, calc, ui>>
    /\ UNCHANGED service

\* the seasons from 2025 on, newest first
laterSeasons == [k \in 1..(veteranSeasons + 1) |-> 2025 + veteranSeasons + 1 - k]

\* out after the stats route has worked through the seasons from 2025 on for
\* Veteran Sixty, the fetches of each season completing in the order in which
\* they were started
RECURSIVE collectedFrom(_, _, _)
collectedFrom(seasons, k, week) ==
    IF k > Len(seasons) THEN <<>>
    ELSE IF week < 1 THEN collectedFrom(seasons, k + 1, PoolWeeks)
    ELSE LET scan == StatsScan("stats", fetchWeek(seasons[k], week, "none"), "id60",
                               seasons[k], week)
         IN  (IF scan.kind = "stat" THEN <<scan.stat>> ELSE <<>>)
             \o collectedFrom(seasons, k, week - 1)

\* GET of the stats route for Veteran Sixty and a seasons list that names the
\* seasons from 2025 on, at await Promise.all(queue) of the season 2025: the
\* workers of that season have returned, one record is missing to TARGET
statsAtLastSeason(seasons, outage) ==
    [IdlePool("stats", laterSeasons \o seasons, "id60", outage) EXCEPT
        !.pc = "run", !.sIdx = Len(laterSeasons), !.week = 0, !.exited = Workers,
        !.out = collectedFrom(laterSeasons, 1, PoolWeeks),
        !.collected = Len(collectedFrom(laterSeasons, 1, PoolWeeks))]

\* every worker of the season has returned: Promise.all resolves
StatsSeasonEnd ==
    /\ wp.pc = "run"
    /\ wp.variant = "stats"
    /\ wp.exited = Workers
    /\ ~wp.rejected
    /\ wp' = statsAdvance(wp)
    /\ UNCHANGED <<fw, calc, ui>>
    /\ UNCHANGED service

\* the stats draft at the head of its inner loop: the next page is awaited, or
\* out is returned as it is
draftAdvance(st) ==
    IF st.week <= PoolWeeks THEN
        [st EXCEPT !.inflight = {[w |-> 1, j |-> 0, season |-> st.seasons[st.sIdx], week |-> st.week]}]
    ELSE IF st.sIdx < Len(st.seasons) THEN
        [st EXCEPT !.sIdx = @ + 1, !.week = 1,
                   !.inflight = {[w |-> 1, j |-> 0, season |-> st.seasons[st.sIdx + 1], week |-> 1]}]
    ELSE [st EXCEPT !.pc = "returned"]

\* GET of the stats draft up to its first await fetchWeek
DraftCall ==
    /\ wp.pc = "idle"
    /\ wp.variant = "draft"
    /\ wp' = draftAdvance([wp EXCEPT !.pc = "run", !.sIdx = 1, !.week = 1])
    /\ UNCHANGED <<fw, calc, ui>>
    /\ UNCHANGED service

\* the page the draft awaits resolves: the player's row is pushed and the loop
\* goes on with the next week
DraftSettle ==
    /\ wp.pc = "run"
    /\ wp.variant = "draft"
    /\ \E job \in wp.inflight :
         \E scan \in {StatsScan("draft", fetchWeek(job.season, job.week, wp.outage),
                                wp.id, job.season, job.week)} :
            CASE scan.kind = "throw" ->
                   wp' = [wp EXCEPT !.inflight = {}, !.rejected = TRUE, !.pc = "threw"]
              [] scan.kind = "skip" ->
                   wp' = draftAdvance([wp EXCEPT !.inflight = {}, !.week = @ + 1])
              [] OTHER ->
                   wp' = draftAdvance([wp EXCEPT !.inflight = {}, !.week = @ + 1,
                                                 !.out = Append(@, scan.stat),
                                                 !.collected = @ + 1])
    /\ UNCHANGED <<fw, calc, ui>>
    /\ UNCHANGED service

InitPool ==
    /\ ServiceOff
    /\ fw = Unused
    /\ calc = Unused
    /\ ui = Unused
    /\ \E outage \in Outages :
         \/ \E seasons \in SeasonLists : wp = IdlePool("batched", seasons, "id7", outage)
         \/ \E param \in PoolSeasonParams, id \in PoolIds :
               wp = IdlePool("stats", statsSeasons(param), id, outage)
         \/ \E param \in PoolSeasonParams :
               wp = statsAtLastSeason(statsSeasons(param), outage)
         \/ \E param \in PoolSeasonParams, id \in PoolIds :
               wp = IdlePool("draft", draftSeasons(param), id, outage)

NextPool ==
    \/ BatchedCall
    \/ \E w \in Workers : BatchedSettle(w)
    \/ BatchedReturn
    \/ StatsCall
    \/ \E w \in Workers : StatsSettle(w)
    \/ StatsSeasonEnd
    \/ DraftCall
    \/ DraftSettle

SpecPool == InitPool /\ [][NextPool]_vars

(***************************************************************************)
(* The scoring helpers on their own, every copy applied to the same        *)
(* arguments: the later draft (part_000 359-437), the earlier draft        *)
(* (part_000 42-101), the projections route (route.ts 45-158) and the page *)
(* (page.tsx 81-223).                                                      *)
(***************************************************************************)

\* the oldest age the helpers are given
MaxAge == 41

\* builds one behaviour runs on the same arguments
MaxRuns == 2

Ages == (-1)..MaxAge

CalcPositions == {"RB", "WR", "TE", "QB", "K", ""}

\* page.tsx 166-187 and 1264-1285, route.ts 54-76: if (d > 0) ...; if (d < 0) ...
ageMultiplierUi(pos, age) ==
    LET one == Int2Num(1)
        zero == Int2Num(0)
        adj(peak, rateD, capD, rateG, capG) ==
            LET d == age - peak
            IN  IF d > 0 THEN NumSub(one, clamp(R(rateD * d, 1000), zero, R(capD, 1000)))
                ELSE IF d < 0 THEN NumAdd(one, clamp(R(rateG * (-d), 1000), zero, R(capG, 1000)))
                ELSE one
    IN  IF age = 0 THEN one
        ELSE CASE pos = "RB" -> adj(26, 60, 250, 20, 80)
               [] pos = "WR" -> adj(27, 30, 180, 15, 60)
               [] pos = "TE" -> adj(28, 20, 120, 10, 50)
               [] pos = "QB" -> adj(32, 15, 120, 10, 50)
               [] OTHER      -> one

AgeCopies == {"late", "early", "ui"}

ageMultiplierOf(copy, pos, age) ==
    CASE copy = "late" -> ageMultiplier(pos, age)
      [] copy = "early" -> ageMultiplierEarly(pos, age)
      [] OTHER -> ageMultiplierUi(pos, age)

\* the points a copy's formula gives, in hundredths
formulaPoints(stat, preset, passTd) ==
    LET passPoints == Or0(stat, "pass_yd") * 4 + Or0(stat, "pass_td") * passTd * 100
                      + Or0(stat, "pass_int") * (-100)
        rushPoints == Or0(stat, "rush_yd") * 10 + Or0(stat, "rush_td") * 600
        catchBonus == IF preset = "PPR" THEN 100 ELSE IF preset = "HALF_PPR" THEN 50 ELSE 0
        recPoints == Or0(stat, "rec_yd") * 10 + Or0(stat, "rec_td") * 600
                     + Or0(stat, "rec") * catchBonus
    IN  R(passPoints + rushPoints + recPoints, 100)

\* the earlier draft's weeklyPoints (part_000 42-51)
weeklyPointsEarly(stat, preset, passTd) ==
    IF preset = "PPR" /\ Has(stat, "pts_ppr") THEN R(stat.pts_ppr, 100)
    ELSE IF preset = "HALF_PPR" /\ Has(stat, "pts_half_ppr") THEN R(stat.pts_half_ppr, 100)
    ELSE IF preset = "STANDARD" /\ Has(stat, "pts_std") THEN R(stat.pts_std, 100)
    ELSE LET pass == Or0(stat, "pass_yd") * 4 + Or0(stat, "pass_td") * passTd * 100
                     + Or0(stat, "pass_int") * (-100)
             rush == Or0(stat, "rush_yd") * 10 + Or0(stat, "rush_td") * 600
             catchBonus == IF preset = "PPR" THEN 100 ELSE IF preset = "HALF_PPR" THEN 50 ELSE 0
             rec == Or0(stat, "rec_yd") * 10 + Or0(stat, "rec_td") * 600
                    + Or0(stat, "rec") * catchBonus
         IN  R(pass + rush + rec, 100)

\* the page's weeklyPoints (page.tsx 95-105, 1231-1241)
weeklyPointsUi(stat, preset, passTd) ==
    IF preset = "PPR" /\ Has(stat, "pts_ppr") THEN R(stat.pts_ppr, 100)
    ELSE IF preset = "HALF_PPR" /\ Has(stat, "pts_half_ppr") THEN R(stat.pts_half_ppr, 100)
    ELSE IF preset = "STANDARD" /\ Has(stat, "pts_std") THEN R(stat.pts_std, 100)
    ELSE formulaPoints(stat, preset, passTd)

\* weeklyPoints that returns a precomputed total only when it is truthy
weeklyPointsTruthy(stat, preset, passTd) ==
    IF preset = "PPR" /\ Has(stat, "pts_ppr") /\ stat.pts_ppr # 0 THEN R(stat.pts_ppr, 100)
    ELSE IF preset = "HALF_PPR" /\ Has(stat, "pts_half_ppr") /\ stat.pts_half_ppr # 0
         THEN R(stat.pts_half_ppr, 100)
    ELSE IF preset = "STANDARD" /\ Has(stat, "pts_std") /\ stat.pts_std # 0
         THEN R(stat.pts_std, 100)
    ELSE formulaPoints(stat, preset, passTd)

\* the projections route's weeklyPoints (route.ts 84-93)
weeklyPointsGuard(stat, preset, passTd) ==
    IF preset = "PPR" /\ Has(stat, "pts_ppr") THEN R(stat.pts_ppr, 100)
    ELSE IF preset = "HALF_PPR" /\ Has(stat, "pts_half_ppr") THEN R(stat.pts_half_ppr, 100)
    ELSE IF preset = "STANDARD" /\ Has(stat, "pts_std") THEN R(stat.pts_std, 100)
    ELSE formulaPoints(stat, preset, passTd)

PointCopies == {"late", "early", "guard", "ui"}

weeklyPointsOf(copy, stat, preset, passTd) ==
    CASE copy = "late" -> weeklyPoints(stat, preset, passTd)
      [] copy = "early" -> weeklyPointsEarly(stat, preset, passTd)
      [] copy = "guard" -> weeklyPointsGuard(stat, preset, passTd)
      [] OTHER -> weeklyPointsUi(stat, preset, passTd)

\* the page's lastNPlayedPoints (page.tsx 151-163)
lastNPlayedPointsUi(weeks, n, preset, passTd) ==
    LET earlier(a, b) == IF a.season # b.season THEN a.season < b.season
                         ELSE a.week < b.week
    IN  The({ SubSeq(ptsPlayed, (IF Len(ptsPlayed) - n > 0 THEN Len(ptsPlayed) - n ELSE 0) + 1,
                     Len(ptsPlayed)) :
              ptsPlayed \in {[i \in 1..Len(played) |-> weeklyPointsUi(played[i], preset, passTd)] :
                             played \in {Filter(SortBy(weeks, earlier), didPlay)}} })

lastNPlayedPointsOf(copy, weeks, n, preset, passTd) ==
    CASE copy = "late" -> lastNPlayedPoints(weeks, n, preset, passTd)
      [] copy = "early" -> lastNPlayedPointsEarly(weeks, n, preset, passTd)
      [] copy = "guard" -> GuardLastNPlayedPoints(weeks, n, preset, passTd)
      [] OTHER -> lastNPlayedPointsUi(weeks, n, preset, passTd)

Presets == {"PPR", "HALF_PPR", "STANDARD"}

\* the values the fields of the stat lines carry when they are present
LineValues ==
    [pts_ppr |-> 0, pts_half_ppr |-> 775, pts_std |-> 0, pass_yd |-> 250, pass_td |-> 2,
     pass_int |-> 1, rush_yd |-> 55, rush_td |-> 1, rec |-> 5, rec_yd |-> 70, rec_td |-> 1]

\* the weekly stats given to weeklyPoints: every subset of the fields
StatLines == {[f \in F |-> LineValues[f]] : F \in SUBSET (DOMAIN LineValues)}

\* the weeks of the histories given to lastNPlayedPoints
HistorySlots == <<[season |-> 2023, week |-> 1], [season |-> 2023, week |-> 2],
                  [season |-> 2024, week |-> 1]>>

\* what a week of a history holds: no record, an all-zero line, one carry, a
\* week with yards, a precomputed total of 0 beside yards, an interception
\* only, and more interceptions than yards make up for
LineKinds == {"none", "zero", "carry", "run", "pre0", "int", "neg"}

HistoryLine(kind, k) ==
    CASE kind = "zero" -> [rush_yd |-> 0, rec |-> 0, targets |-> 0]
      [] kind = "carry" -> [carries |-> 1]
      [] kind = "run" -> [rush_yd |-> 40 + 10 * k]
      [] kind = "pre0" -> [pts_ppr |-> 0, rush_yd |-> 30]
      [] kind = "int" -> [pass_int |-> 1]
      [] OTHER -> [pass_yd |-> 10, pass_int |-> 2]

\* the history with the given kinds of lines, in slot order or reversed
History(kinds, reversed) ==
    LET present == {k \in 1..Len(HistorySlots) : kinds[k] # "none"}
        asc == AtIndices([k \in 1..Len(HistorySlots) |->
                            HistoryLine(kinds[k], k) @@ HistorySlots[k]], present)
    IN  IF reversed THEN [i \in 1..Len(asc) |-> asc[Len(asc) + 1 - i]] ELSE asc

Histories == {History(kinds, reversed) : kinds \in [1..Len(HistorySlots) -> LineKinds],
                                         reversed \in BOOLEAN}

LastNs == {0, 1, 2, 50}

\* the day, counted from 1970-01-01, on which the first build runs
Today == 20000

\* the days on which a build runs
Todays == {Today, Today + 1}

\* a player without birth_date
NoDate == 0

\* yearsSince(dateISO) when new Date() is the day today:
\* (now.getTime() - d.getTime()) / (365.25 * 24 * 3600 * 1000)
yearsSince(dateISO, today) == R((today - dateISO) * 4, 1461)

\* Math.ceil(x)
MathCeil(x) == -((-x.num) \div x.den)

\* Math.floor(x)
MathFloor(x) == x.num \div x.den

\* the age ageMultiplier is given, rounded up
ageCeil(dateISO, today) ==
    IF dateISO = NoDate THEN 0 ELSE MathCeil(yearsSince(dateISO, today))

\* the age ageMultiplier is given: typeof ageYears === 'number' ?
\* Math.floor(ageYears) : undefined, 0 standing for undefined
ageOn(dateISO, today) ==
    IF dateISO = NoDate THEN 0 ELSE MathFloor(yearsSince(dateISO, today))

\* the players the builds are given.  Back Three is 28 years old to the day
\* on the first day, Catcher Five turns 30 on the second day.
CalcRoster ==
    << [player_id |-> "id3", full_name |-> "Back Three", position |-> "RB", team |-> "AAA",
        birth_date |-> Today - 10227],
       [player_id |-> "id40", full_name |-> "Passer Forty", position |-> "QB", team |-> "BBB",
        birth_date |-> NoDate],
       [player_id |-> "id5", full_name |-> "Catcher Five", position |-> "WR", team |-> "",
        birth_date |-> Today + 1 - 10958],
       [player_id |-> "id30", full_name |-> "Catcher Thirty", position |-> "WR", team |-> "AAA",
        birth_date |-> Today - 11000],
       [player_id |-> "id50", full_name |-> "Back Fifty", position |-> "RB", team |-> "BBB",
        birth_date |-> Today - 9000],
       [player_id |-> "id1", full_name |-> "Passer One", position |-> "QB", team |-> "AAA",
        birth_date |-> Today - 12100] >>

\* the players arguments: each player alone, and all of them in two orders
CalcPlayerLists ==
    {<<CalcRoster[i]>> : i \in 1..Len(CalcRoster)}
    \cup {CalcRoster, [i \in 1..Len(CalcRoster) |-> CalcRoster[Len(CalcRoster) + 1 - i]]}

\* the players as the builds read them on the day today
agedOn(players, today) ==
    [i \in 1..Len(players) |->
        [player_id |-> players[i].player_id, full_name |-> players[i].full_name,
         position |-> players[i].position, team |-> players[i].team,
         age |-> ageOn(players[i].birth_date, today)]]

\* the orders in which the fetches of n jobs complete: as started, or reversed
Orders(n) == {[j \in 1..n |-> j], [j \in 1..n |-> n + 1 - j]}

\* results of fetchWeeksBatched when the jobs complete in the given order
RECURSIVE resultsInOrder(_, _, _, _)
resultsInOrder(results, order, seasons, outage) ==
    IF order = <<>> THEN results
    ELSE resultsInOrder(
            The({ store(results, Head(order), page) :
                  page \in {fetchWeek(JobsOf(seasons)[Head(order)].season,
                                      JobsOf(seasons)[Head(order)].week, outage)} }),
            Tail(order), seasons, outage)

BuildCopies == {"late", "early", "guard"}

\* buildProjectionsFor after await fetchWeeksBatched, on the results weeksAll
\* (part_000 513-562)
projectionRows(weeksAll, players, preset, passTd) ==
    IF \E j \in DOMAIN weeksAll : NullRow \in Range(weeksAll[j])
    THEN [threw |-> TRUE, rows |-> <<>>]
    ELSE [threw |-> FALSE,
          rows |-> [i \in 1..Len(players) |->
                      The({ [player_id |-> players[i].player_id,
                             full_name |-> players[i].full_name,
                             position  |-> toUpperCase(players[i].position),
                             team      |-> players[i].team,
                             ppg       |-> IF isFinite(ppg) THEN ppg ELSE Int2Num(0)] :
                            ppg \in {projectPPG(bucketOf(players[i].player_id, weeksAll),
                                                preset, passTd, players[i].position,
                                                players[i].age)} })]]

\* one build of a copy on the day today, the week fetches of
\* fetchWeeksBatched completing in the given order
buildOn(copy, players, preset, passTd, seasons, outage, today, order) ==
    CASE copy = "late" ->
           projectionRows(resultsInOrder(<<>>, order, seasons, outage),
                          agedOn(players, today), preset, passTd)
      [] copy = "early" ->
           IF buildThrows(seasons, outage) THEN [threw |-> TRUE, rows |-> <<>>]
           ELSE [threw |-> FALSE,
                 rows |-> buildProjectionsForEarly(agedOn(players, today), preset, passTd,
                                                   seasons, outage)]
      [] OTHER ->
           [threw |-> FALSE, rows |-> GuardRows(agedOn(players, today), preset, passTd, outage)]

\* a build runs: buildProjectionsFor of either draft, or the worker loop of
\* ensureProjections
CalcBuild ==
    /\ calc.pc = "args"
    /\ calc.fn = "build"
    /\ Len(calc.runs) < MaxRuns
    /\ \E today \in Todays, order \in Orders(Len(calc.seasons) * NumWeeks) :
         /\ calc.copy # "late" => order = [j \in 1..Len(order) |-> j]
         /\ \E res \in {buildOn(calc.copy, calc.players, calc.preset, calc.passTd,
                                calc.seasons, calc.outage, today, order)} :
              calc' = [calc EXCEPT !.runs = Append(@, [today |-> today, order |-> order,
                                                       threw |-> res.threw, rows |-> res.rows])]
    /\ UNCHANGED <<fw, wp, ui>>
    /\ UNCHANGED service

\* ageMultiplier(pos, age), every copy
CalcAge ==
    /\ calc.pc = "args"
    /\ calc.fn = "ageMultiplier"
    /\ calc' = [calc EXCEPT !.pc = "done",
                            !.out = [copy \in AgeCopies |-> ageMultiplierOf(copy, calc.pos, calc.age)]]
    /\ UNCHANGED <<fw, wp, ui>>
    /\ UNCHANGED service

\* weeklyPoints(stat, preset, passTd), every copy
CalcPoints ==
    /\ calc.pc = "args"
    /\ calc.fn = "weeklyPoints"
    /\ calc' = [calc EXCEPT !.pc = "done",
                            !.out = [copy \in PointCopies |->
                                        weeklyPointsOf(copy, calc.stat, calc.preset, calc.passTd)]]
    /\ UNCHANGED <<fw, wp, ui>>
    /\ UNCHANGED service

\* lastNPlayedPoints(weeks, n, preset, passTd), every copy
CalcLastN ==
    /\ calc.pc = "args"
    /\ calc.fn = "lastNPlayedPoints"
    /\ calc' = [calc EXCEPT !.pc = "done",
                            !.out = [copy \in PointCopies |->
                                        lastNPlayedPointsOf(copy, calc.weeks, calc.n, calc.preset, calc.passTd)]]
    /\ UNCHANGED <<fw, wp, ui>>
    /\ UNCHANGED service

\* JSON values of the fields week and season of a raw record
JNum(x) == [t |-> "number", v |-> x]
JStr(x) == [t |-> "string", v |-> x]

\* +v and Number(v) of a JSON value
JsNumber(x) ==
    CASE x.t = "number" -> x.v
      [] x.t = "string" -> Number(x.v)
      [] x.t = "null" -> Int2Num(0)
      [] OTHER -> NaN

\* +row.f and Number(row.f): an absent field is undefined, which gives NaN
NumberOf(row, f) == IF Has(row, f) THEN JsNumber(row[f]) ELSE NaN

\* the test both drafts apply before a record enters a bucket:
\*   late   if (!id || !Number.isFinite(+s) || !Number.isFinite(+w)) continue
\*   early  if (!Number.isFinite(w.week) || !Number.isFinite(w.season)) continue
bucketed(copy, row) ==
    /\ copy = "late" => row.player_id # ""
    /\ isFinite(NumberOf(row, "season"))
    /\ isFinite(NumberOf(row, "week"))

\* the bucket of one player built from raw records: week: Number(w),
\* season: Number(s), the other fields as toWeeklyStat reads them
bucketRaw(copy, id, weeksAll) ==
    LET kept(row) == row.player_id = id /\ bucketed(copy, row)
        rows == Filter(Flatten(weeksAll), kept)
    IN  [i \in 1..Len(rows) |->
            toWeeklyStat([rows[i] EXCEPT !.week = NumberOf(rows[i], "week"),
                                         !.season = NumberOf(rows[i], "season")])]

\* values of week and of season in a raw record; Absent marks a record
\* without the field
Absent == [t |-> "absent", v |-> <<>>]
RawWeeks == {Absent, JNull, JNum(Int2Num(1)), JNum(R(5, 2)), JStr("1"), JStr("abc"), JStr("")}
RawSeasons == {Absent, JNull, JNum(Int2Num(2024)), JNum(R(4049, 2)), JStr("2024")}

\* a raw record of Back Seven with the given week and season
RawRow(week, season) ==
    LET fields == {"player_id", "rush_yd"}
                  \cup (IF week = Absent THEN {} ELSE {"week"})
                  \cup (IF season = Absent THEN {} ELSE {"season"})
    IN  [f \in fields |->
            CASE f = "player_id" -> "id7"
              [] f = "rush_yd" -> 50
              [] f = "week" -> week
              [] OTHER -> season]

\* the pages of raw records the bucketing is run on: a doubtful record
\* alone, or behind a well-formed one
RawPages ==
    {<<RawRow(w, s)>> : w \in RawWeeks, s \in RawSeasons}
    \cup {<<RawRow(JNum(Int2Num(2)), JNum(Int2Num(2024))), RawRow(w, s)>> :
            w \in RawWeeks, s \in RawSeasons}

\* the bucketing of either draft on one page of raw records
CalcBucket ==
    /\ calc.pc = "args"
    /\ calc.fn = "bucket"
    /\ calc' = [calc EXCEPT !.pc = "done",
                            !.out = bucketRaw(calc.copy, "id7", <<calc.page>>)]
    /\ UNCHANGED <<fw, wp, ui>>
    /\ UNCHANGED service

\* the seasons parameters of the requests whose windows are looked at
WindowSeasonParams == {"", "2024", "2023,2024", "2024,2024"}

\* how often the upstream page of (2024, 1) lists each record
Listings == {1, 2}

\* the results of fetchWeeksBatched when page (2024, 1) lists its records
\* the given number of times
listedPages(seasons, listing) ==
    [j \in 1..(Len(seasons) * NumWeeks) |->
        IF JobsOf(seasons)[j].season = 2024 /\ JobsOf(seasons)[j].week = 1 /\ listing = 2
        THEN fetchWeek(2024, 1, "none") \o fetchWeek(2024, 1, "none")
        ELSE fetchWeek(JobsOf(seasons)[j].season, JobsOf(seasons)[j].week, "none")]

\* one player's bucket and points window in a build of either draft: the
\* seasons of the request, the pages, the bucket, lastNPlayedPoints(.., 50, ..)
CalcWindow ==
    /\ calc.pc = "args"
    /\ calc.fn = "window"
    /\ \E seasons \in {IF calc.copy = "late" THEN parseSeasons(calc.seasons)
                       ELSE DEFAULT_SEASONS} :
       \E bucket \in {bucketOf(calc.id, listedPages(seasons, calc.listing))} :
         calc' = [calc EXCEPT
                    !.pc = "done",
                    !.out = [seasons |-> seasons,
                             bucket |-> bucket,
                             window |-> IF calc.copy = "late"
                                        THEN lastNPlayedPoints(bucket, 50, calc.preset, 4)
                                        ELSE lastNPlayedPointsEarly(bucket, 50, calc.preset, 4)]]
    /\ UNCHANGED <<fw, wp, ui>>
    /\ UNCHANGED service

\* the week of the weekly-history endpoint built from the upstream fields
\* calc.stat, and the points the page shows for it under the config: the
\* record pushed at stats/[id]/route.ts 142-163 given to the page's weeklyPoints
CalcHistory ==
    /\ calc.pc = "args"
    /\ calc.fn = "history"
    /\ \E record \in {StatsRecord(calc.stat, "id1", 2024, 1)} :
          calc' = [calc EXCEPT !.pc = "done",
                               !.out = [record |-> record,
                                        ui |-> weeklyPointsUi(record, calc.preset, calc.passTd),
                                        raw |-> weeklyPointsUi(calc.stat, calc.preset, calc.passTd)]]
    /\ UNCHANGED <<fw, wp, ui>>
    /\ UNCHANGED service

InitCalc ==
    /\ ServiceOff
    /\ fw = Unused
    /\ wp = Unused
    /\ ui = Unused
    /\ \/ \E pos \in CalcPositions, age \in Ages :
            calc = [pc |-> "args", fn |-> "ageMultiplier", pos |-> pos, age |-> age, out |-> <<>>]
       \/ \E stat \in StatLines, preset \in Presets, passTd \in {4, 6} :
            calc = [pc |-> "args", fn |-> "weeklyPoints", stat |-> stat, preset |-> preset,
                    passTd |-> passTd, out |-> <<>>]
       \/ \E weeks \in Histories, n \in LastNs, preset \in {"PPR", "STANDARD"} :
            calc = [pc |-> "args", fn |-> "lastNPlayedPoints", weeks |-> weeks, n |-> n,
                    preset |-> preset, passTd |-> 4, out |-> <<>>]
       \/ \E copy \in BuildCopies, players \in CalcPlayerLists, preset \in Presets,
             passTd \in {4, 6}, seasons \in SeasonLists \cup {SEASONS}, outage \in Outages :
            /\ copy = "guard" => seasons = SEASONS
            /\ copy = "early" => seasons = DEFAULT_SEASONS
            /\ copy = "late" => seasons \in SeasonLists
            /\ calc = [pc |-> "args", fn |-> "build", copy |-> copy, players |-> players,
                       preset |-> preset, passTd |-> passTd, seasons |-> seasons,
                       outage |-> outage, runs |-> <<>>]
       \/ \E copy \in {"late", "early"}, page \in RawPages :
            calc = [pc |-> "args", fn |-> "bucket", copy |-> copy, page |-> page, out |-> <<>>]
       \/ \E copy \in {"late", "early"}, id \in {"id7", "id3", "id9"},
             seasons \in WindowSeasonParams, listing \in Listings,
             preset \in {"PPR", "STANDARD"} :
            /\ copy = "early" => seasons = ""
            /\ calc = [pc |-> "args", fn |-> "window", copy |-> copy, id |-> id,
                       seasons |-> seasons, listing |-> listing, preset |-> preset,
                       out |-> <<>>]
       \/ \E stat \in StatLines, passTd \in {4, 6} :
            calc = [pc |-> "args", fn |-> "history", stat |-> stat, preset |-> "PPR",
                    passTd |-> passTd, out |-> <<>>]

NextCalc ==
    \/ CalcAge
    \/ CalcPoints
    \/ CalcLastN
    \/ CalcBuild
    \/ CalcBucket
    \/ CalcWindow
    \/ CalcHistory

SpecCalc == InitCalc /\ [][NextCalc]_vars

(***************************************************************************)
(* usePlayerBundle (page.tsx 236-303): the hook's state in ui, and one     *)
(* entry of ui.runs per run of its effect.                                 *)
(***************************************************************************)
MaxRenders == 2     \* renders with a new (id, preset, passTd) in one behaviour

BundleIds == {"", "id1", "id2"}
BundleProps == [id : BundleIds, preset : {"PPR"}, passTd : {4, 6}]

\* the ppg of the row the projections endpoint holds for a player under a
\* config, in hundredths: a different value for every (id, preset, passTd)
rowPpg(props) ==
    (IF props.id = "id1" THEN 1000 ELSE 2000)
    + (IF props.preset = "PPR" THEN 100 ELSE 0) + props.passTd

\* what the fetch of /api/projections?ids=<id> of line 270 can settle with: a
\* response with the player's row, with a row whose ppg is 0, with no row (the
\* endpoint has no projection for the id), a non-OK response, a rejection
projResponses(props) ==
    {[kind |-> "ok", players |-> <<[player_id |-> props.id, ppg |-> rowPpg(props)]>>],
     [kind |-> "ok", players |-> <<[player_id |-> props.id, ppg |-> 0]>>],
     [kind |-> "ok", players |-> <<>>],
     [kind |-> "notok", players |-> <<>>],
     [kind |-> "throw", players |-> <<>>]}

NoResponse == [kind |-> "none", players |-> <<>>]

\* the effect of lines 248-299 for the props: the cleanup of the run before
\* it sets that run's ignore, then run() goes up to its first await
effect(st, props) ==
    LET cleaned == [k \in 1..Len(st.runs) |-> [st.runs[k] EXCEPT !.ignore = TRUE]]
        new(pc) == [props |-> props, ignore |-> FALSE, pc |-> pc, proj |-> NoResponse]
    IN  IF props.id = ""
        THEN [st EXCEPT !.props = props, !.player = "", !.ppg = 0, !.weeks = "",
                        !.runs = Append(cleaned, new("done"))]
        ELSE [st EXCEPT !.props = props, !.loading = TRUE, !.err = FALSE,
                        !.runs = Append(cleaned, new("byid"))]

\* the component is rendered with other props: the effect runs again
BundleRender(props) ==
    /\ ui.pc = "bundle"
    /\ Len(ui.runs) <= MaxRenders
    /\ props # ui.props
    /\ ui' = effect(ui, props)
    /\ UNCHANGED <<fw, wp, calc>>
    /\ UNCHANGED service

\* lines 265-267 of run k: the by-id fetch settles; a rejection goes to the
\* catch and the finally of lines 290-294
BundleById(k, outcome) ==
    /\ ui.pc = "bundle"
    /\ ui.runs[k].pc = "byid"
    /\ \E run \in {ui.runs[k]} :
          ui' = IF outcome = "ok"
                THEN [ui EXCEPT !.player = IF run.ignore THEN @ ELSE run.props.id,
                                !.runs[k].pc = "proj"]
                ELSE [ui EXCEPT !.err = IF run.ignore THEN @ ELSE TRUE,
                                !.loading = IF run.ignore THEN @ ELSE FALSE,
                                !.runs[k].pc = "done"]
    /\ UNCHANGED <<fw, wp, calc>>
    /\ UNCHANGED service

\* lines 270-277 of run k: the projections fetch settles with resp
setPpgAfter(st, run, resp) ==
    IF resp.kind = "ok"
    THEN IF ~run.ignore /\ Len(resp.players) > 0 /\ resp.players[1].player_id = run.props.id
         THEN resp.players[1].ppg
         ELSE st.ppg
    ELSE IF ~run.ignore THEN 0 ELSE st.ppg

BundleProj(k, resp) ==
    /\ ui.pc = "bundle"
    /\ ui.runs[k].pc = "proj"
    /\ resp \in projResponses(ui.runs[k].props)
    /\ \E run \in {ui.runs[k]} :
          ui' = IF resp.kind = "throw"
                THEN [ui EXCEPT !.err = IF run.ignore THEN @ ELSE TRUE,
                                !.loading = IF run.ignore THEN @ ELSE FALSE,
                                !.runs[k].proj = resp,
                                !.runs[k].pc = "done"]
                ELSE [ui EXCEPT !.ppg = setPpgAfter(ui, run, resp),
                                !.runs[k].proj = resp,
                                !.runs[k].pc = "stats"]
    /\ UNCHANGED <<fw, wp, calc>>
    /\ UNCHANGED service

\* lines 280-294 of run k: the stats fetch settles, then the finally
BundleStats(k, outcome) ==
    /\ ui.pc = "bundle"
    /\ ui.runs[k].pc = "stats"
    /\ \E run \in {ui.runs[k]} :
          ui' = IF run.ignore THEN [ui EXCEPT !.runs[k].pc = "done"]
                ELSE [ui EXCEPT !.weeks = CASE outcome = "ok" -> run.props.id
                                            [] outcome = "notok" -> ""
                                            [] OTHER -> @,
                                !.err = IF outcome = "throw" THEN TRUE ELSE @,
                                !.loading = FALSE,
                                !.runs[k].pc = "done"]
    /\ UNCHANGED <<fw, wp, calc>>
    /\ UNCHANGED service

InitBundle ==
    /\ ServiceOff
    /\ fw = Unused
    /\ wp = Unused
    /\ calc = Unused
    /\ \E props \in BundleProps :
          ui = effect([pc |-> "bundle", props |-> props, player |-> "", ppg |-> 0,
                       weeks |-> "", loading |-> FALSE, err |-> FALSE, runs |-> <<>>], props)

NextBundle ==
    \/ \E props \in BundleProps : BundleRender(props)
    \/ \E k \in 1..Len(ui.runs), outcome \in {"ok", "throw"} : BundleById(k, outcome)
    \/ \E k \in 1..Len(ui.runs) : \E resp \in projResponses(ui.runs[k].props) : BundleProj(k, resp)
    \/ \E k \in 1..Len(ui.runs), outcome \in {"ok", "notok", "throw"} : BundleStats(k, outcome)

SpecBundle == InitBundle /\ [][NextBundle]_vars

(***************************************************************************)
(* DraftOrder (page.tsx 576-647): the component's state in ui.  A text is  *)
(* the sequence of its characters, '' the empty sequence, null the player  *)
(* "".                                                                     *)
(***************************************************************************)
MaxPicks == 2       \* picks added in one behaviour

\* what can be typed into the team field
TeamTexts == {<<>>, <<" ">>, <<"A", "n">>, <<"a", "n">>, <<"A", "N">>,
              <<" ", "A", "n", " ">>, <<"B", "o">>, <<"b", "o", " ">>}

DraftPlayers == {"id1", "id2"}

\* String.prototype.trim
RECURSIVE trim(_)
trim(s) ==
    IF s = <<>> THEN s
    ELSE IF Head(s) = " " THEN trim(Tail(s))
    ELSE IF s[Len(s)] = " " THEN trim(SubSeq(s, 1, Len(s) - 1))
    ELSE s

\* String.prototype.toLowerCase on a sequence of characters
toLowerCaseChars(s) ==
    [i \in 1..Len(s) |-> CASE s[i] = "A" -> "a" [] s[i] = "B" -> "b" [] s[i] = "N" -> "n"
                           [] OTHER -> s[i]]

\* Array.prototype.filter
RECURSIVE filter(_, _)
filter(arr, keep) ==
    IF arr = <<>> THEN <<>>
    ELSE (IF Head(arr) \in keep THEN <<Head(arr)>> ELSE <<>>) \o filter(Tail(arr), keep)

\* addTeam of a component that compares the names as they are
addTeamExact(st) ==
    LET name == trim(st.newTeam)
    IN  IF name = <<>> THEN st
        ELSE IF \E i \in 1..Len(st.teams) : st.teams[i] = name THEN st
        ELSE [st EXCEPT !.teams = Append(st.teams, name),
                        !.newTeam = <<>>,
                        !.pickTeam = IF st.pickTeam = <<>> THEN name ELSE @]

\* addTeam (611-619)
addTeam(st) ==
    LET name == trim(st.newTeam)
    IN  IF name = <<>> THEN st
        ELSE IF \E i \in 1..Len(st.teams) : toLowerCaseChars(st.teams[i]) = toLowerCaseChars(name) THEN st
        ELSE [st EXCEPT !.teams = Append(st.teams, name),
                        !.newTeam = <<>>,
                        !.pickTeam = IF st.pickTeam = <<>> THEN name ELSE @]

\* removeTeam (620-626)
removeTeam(st, name) ==
    LET next == filter(st.teams, {t \in Range(st.teams) : t # name})
    IN  [st EXCEPT !.teams = next,
                   !.pickTeam = IF st.pickTeam = name
                                THEN (IF next = <<>> THEN <<>> ELSE next[1]) ELSE @,
                   !.picks = filter(st.picks, {p \in Range(st.picks) : p.team # name})]

\* clearAll (627-634)
clearAll(st) ==
    [st EXCEPT !.teams = <<>>, !.picks = <<>>, !.pickTeam = <<>>, !.pendingPlayer = ""]

\* addPick (637-646); the id of a pick is the number of picks made before it
addPick(st) ==
    IF st.pickTeam = <<>> \/ st.pendingPlayer = "" THEN st
    ELSE [st EXCEPT !.picks = <<[id |-> st.made, team |-> st.pickTeam,
                                 player |-> st.pendingPlayer]>> \o st.picks,
                    !.made = st.made + 1,
                    !.pendingPlayer = ""]

\* removePick (647)
removePick(st, id) ==
    [st EXCEPT !.picks = filter(st.picks, {p \in Range(st.picks) : p.id # id})]

\* the team field is edited (664)
DraftType(text) ==
    /\ ui.pc = "draft"
    /\ ui' = [ui EXCEPT !.newTeam = text, !.last = "type"]
    /\ UNCHANGED <<fw, wp, calc>>
    /\ UNCHANGED service

\* a team is chosen in the select of the pick form (693, 704-712)
DraftSelect(t) ==
    /\ ui.pc = "draft"
    /\ t \in Range(ui.teams)
    /\ ui' = [ui EXCEPT !.pickTeam = t, !.last = "select"]
    /\ UNCHANGED <<fw, wp, calc>>
    /\ UNCHANGED service

\* a player is chosen in the search of the pick form (718)
DraftPending(p) ==
    /\ ui.pc = "draft"
    /\ ui' = [ui EXCEPT !.pendingPlayer = p, !.last = "pending"]
    /\ UNCHANGED <<fw, wp, calc>>
    /\ UNCHANGED service

DraftAddTeam ==
    /\ ui.pc = "draft"
    /\ ui' = [addTeam(ui) EXCEPT !.last = "addTeam"]
    /\ UNCHANGED <<fw, wp, calc>>
    /\ UNCHANGED service

DraftRemoveTeam(name) ==
    /\ ui.pc = "draft"
    /\ name \in Range(ui.teams)
    /\ ui' = [removeTeam(ui, name) EXCEPT !.last = "removeTeam"]
    /\ UNCHANGED <<fw, wp, calc>>
    /\ UNCHANGED service

DraftClearAll ==
    /\ ui.pc = "draft"
    /\ ui' = [clearAll(ui) EXCEPT !.last = "clearAll"]
    /\ UNCHANGED <<fw, wp, calc>>
    /\ UNCHANGED service

\* the button of line 720; it is disabled without a team or a player
DraftAddPick ==
    /\ ui.pc = "draft"
    /\ ui.made < MaxPicks
    /\ ui' = [addPick(ui) EXCEPT !.last = "addPick"]
    /\ UNCHANGED <<fw, wp, calc>>
    /\ UNCHANGED service

DraftRemovePick(id) ==
    /\ ui.pc = "draft"
    /\ \E i \in 1..Len(ui.picks) : ui.picks[i].id = id
    /\ ui' = [removePick(ui, id) EXCEPT !.last = "removePick"]
    /\ UNCHANGED <<fw, wp, calc>>
    /\ UNCHANGED service

\* the empty draft: the initial values of useState (583-589), nothing stored
InitDraft ==
    /\ ServiceOff
    /\ fw = Unused
    /\ wp = Unused
    /\ calc = Unused
    /\ ui = [pc |-> "draft", teams |-> <<>>, picks |-> <<>>, newTeam |-> <<>>,
             pickTeam |-> <<>>, pendingPlayer |-> "", made |-> 0, last |-> "mount"]

NextDraft ==
    \/ \E text \in TeamTexts : DraftType(text)
    \/ \E t \in Range(ui.teams) : DraftSelect(t)
    \/ \E p \in DraftPlayers : DraftPending(p)
    \/ DraftAddTeam
    \/ \E name \in Range(ui.teams) : DraftRemoveTeam(name)
    \/ DraftClearAll
    \/ DraftAddPick
    \/ \E id \in 0..(MaxPicks - 1) : DraftRemovePick(id)

SpecDraft == InitDraft /\ [][NextDraft]_vars

(***************************************************************************)
(* Properties.                                                             *)
(***************************************************************************)
Projections == route \in {"early", "late", "guard"}

Done(r) == r.pc = "done"
Ok(r) == r.pc = "done" /\ r.status = 200

\* the request is served on the position path of the early or late draft
OnPositionPath(r) ==
    route \in {"early", "late"} /\ r.ids = "" /\ posOf(r) \in {"QB", "RB", "WR", "TE"}

\* the staleness window of the route that runs
TTL == IF route = "guard" THEN BUILD_TTL_MS ELSE STALE_MS

\* the stored entry of a key of the early and late drafts
EntryOf(k) == IF k[3] \in {"QB", "RB", "WR", "TE"} THEN posCache[k] ELSE idsCache[k]
Stored(k) == IF k[3] \in {"QB", "RB", "WR", "TE"} THEN k \in DOMAIN posCache
             ELSE k \in DOMAIN idsCache

\* C1: when a position-path request arrives and the entry of its key
\* (preset, passTd, position) is younger than 12 h, the request is answered at
\* once with status 200 and rows of that entry (all of them when it carries no
\* limit and no exclude), it invokes no build and no roster fetch, and both
\* cache tables are left as they were.
C1_PositionHit ==
    [][(Len(reqs') = Len(reqs) + 1 /\ OnPositionPath(reqs'[Len(reqs')]))
       => LET r == reqs'[Len(reqs')]
              k == <<presetOf(r), passTdOf(r), posOf(r)>>
          IN  (k \in DOMAIN posCache /\ now - posCache[k].at < 12 * 60 * 60 * 1000)
              => /\ Ok(r)
                 /\ Range(r.players) \subseteq Range(posCache[k].rows)
                 /\ ~Tuned(r) => Range(r.players) = Range(posCache[k].rows)
                 /\ r.built = <<>>
                 /\ r.fetched = 0
                 /\ posCache' = posCache
                 /\ idsCache' = idsCache]_vars

\* C1 witness: a position-path request was answered from a cached entry
C1_Witness ==
    \E i \in 1..Len(reqs) :
        /\ OnPositionPath(reqs[i])
        /\ Ok(reqs[i])
        /\ reqs[i].read # <<>>
        /\ reqs[i].players # <<>>
        /\ reqs[i].built = <<>>

\* what a successful request owes to a key it found missing or stale: the
\* entry has been written since the request arrived (and, in the early and
\* late drafts, by a build this request invoked)
Rebuilt(r, m) ==
    IF route = "guard" THEN projCache.hit /\ projCache.at >= r.arrived
    ELSE /\ m.key \in Range(r.built)
         /\ Stored(m.key)
         /\ EntryOf(m.key).at >= r.arrived

\* a fast ALL request that found a fresh position and therefore built nothing
FastSkip(r) == r.fast = "1" /\ r.read # <<>> /\ r.built = <<>>

\* C2 (amended): no request reads rows from an entry whose age has reached the
\* TTL, on any path; and a request answered with status 200 has rebuilt every
\* entry it found missing or stale, the entry carrying a timestamp not older
\* than the request, except a fast ALL request that found a fresh position,
\* which skips the others.
C2_Staleness ==
    \A i \in 1..Len(reqs) :
        /\ \A h \in Range(reqs[i].read) : h.age < TTL
        /\ (Ok(reqs[i]) /\ ~FastSkip(reqs[i]))
              => \A m \in Range(reqs[i].missed) : Rebuilt(reqs[i], m)

\* C2 as stated: every request answered with status 200 has rebuilt each
\* entry it found missing or stale, the fast ALL request included
C2_Original ==
    \A i \in 1..Len(reqs) :
        /\ \A h \in Range(reqs[i].read) : h.age < TTL
        /\ Ok(reqs[i]) => \A m \in Range(reqs[i].missed) : Rebuilt(reqs[i], m)

\* C2 witness: a request found a stale entry, rebuilt it and was answered
C2_Witness ==
    \E i \in 1..Len(reqs) :
        /\ Ok(reqs[i])
        /\ \E m \in Range(reqs[i].missed) : m.had /\ Rebuilt(reqs[i], m)
        /\ reqs[i].players # <<>>

\* C3: the rows of every successful projections response were computed under
\* the scoring config (preset, passTd) of the request, also when the request
\* waited on a build that another request had started.
C3_ConfigKeying ==
    \A i \in 1..Len(reqs) :
        (Projections /\ Ok(reqs[i]))
        => \A h \in Range(reqs[i].read) :
              /\ h.key[1] = (IF reqs[i].preset = "" THEN "PPR" ELSE reqs[i].preset)
              /\ h.key[2] = (IF reqs[i].passTd = "6" THEN 6 ELSE 4)

\* the parameters of the request are invalid: no ids and a pos that names no
\* position (ALL is a mode of the route that has the ALL path), an ids
\* parameter without an identifier, or a search without query text
Invalid(r) ==
    \/ /\ Projections
       /\ r.ids = ""
       /\ r.pos \notin {"rb"}
       /\ ~(route = "early" /\ r.pos = "ALL")
    \/ Projections /\ r.ids = ","
    \/ route = "search" /\ r.q = ""

\* C4: a request with invalid parameters is never answered with a 2xx status.
C4_InvalidRejected ==
    \A i \in 1..Len(reqs) :
        (Done(reqs[i]) /\ Invalid(reqs[i])) => reqs[i].status \notin 200..299

\* the ids the caller excludes, and the number of rows the limit allows: the
\* limit clamped to [1, 200], 50 when absent, none when it is not a number
Excluded(r) == IF r.exclude = "" THEN {} ELSE {r.exclude}
Cap(r) ==
    CASE r.limit = "" -> 50
      [] r.limit = "2.5" -> 2
      [] r.limit = "-3" -> 1
      [] r.limit = "abc" -> 0

Sorted(rows) ==
    \A j \in 1..(Len(rows) - 1) : ~NumLt(rows[j].ppg, rows[j + 1].ppg)

PostProcessed(r) ==
    /\ \A j \in 1..Len(r.players) : r.players[j].player_id \notin Excluded(r)
    /\ Sorted(r.players)
    /\ Len(r.players) <= Cap(r)

FourKeys(r) == [j \in 1..4 |-> <<presetOf(r), passTdOf(r), POSITIONS[j]>>]

\* the response is the first rows, by descending ppg, of pool without the
\* excluded players
TopOf(r, pool) ==
    /\ PostProcessed(r)
    /\ Range(r.players) \subseteq Range(pool)
    /\ LET rest == {x \in Range(pool) : x.player_id \notin Excluded(r)}
       IN  /\ Len(r.players) = (IF Cardinality(rest) < Cap(r) THEN Cardinality(rest)
                                ELSE Cap(r))
           /\ \A x \in rest \ Range(r.players) :
                 \A j \in 1..Len(r.players) : ~NumLt(r.players[j].ppg, x.ppg)

\* C6: when a pos=ALL request with a numeric or absent limit arrives and the
\* entries of QB, RB, WR and TE of its config are all fresh, it is answered at
\* once, without a build, with the first min(L, n) rows by descending ppg of
\* the four row lists without the excluded players.
C6_AllMerge ==
    [][(Len(reqs') = Len(reqs) + 1 /\ route \in {"early", "late"})
       => LET r == reqs'[Len(reqs')]
              K == FourKeys(r)
          IN  (/\ r.ids = "" /\ r.pos = "ALL" /\ r.limit # "abc"
               /\ \A j \in 1..4 : /\ K[j] \in DOMAIN posCache
                                  /\ now - posCache[K[j]].at < 12 * 60 * 60 * 1000)
              => /\ Ok(r)
                 /\ r.built = <<>>
                 /\ TopOf(r, posCache[K[1]].rows \o posCache[K[2]].rows
                             \o posCache[K[3]].rows \o posCache[K[4]].rows)]_vars

\* a pos=ALL request of the early draft with the fast flag
FastAll(r) == route = "early" /\ r.ids = "" /\ r.pos = "ALL" /\ r.fast = "1"

\* C7: a fast ALL request that found no fresh position and was answered has
\* built QB, RB, WR and TE, stored each under its key with a timestamp not
\* before its arrival, and its response holds rows, not an empty list.
C7_FastFallback ==
    \A i \in 1..Len(reqs) :
        (FastAll(reqs[i]) /\ reqs[i].read = <<>> /\ Done(reqs[i]))
        => LET r == reqs[i]
               K == FourKeys(r)
           IN  /\ r.status = 200
               /\ r.built = K
               /\ \A j \in 1..4 : /\ K[j] \in DOMAIN posCache
                                  /\ posCache[K[j]].at >= r.arrived
               /\ r.players # <<>>

\* What the fallback does for every limit: the four positions are built and
\* stored before the response, the response is cut from the merged rows (all
\* of them when the request carries no limit and no exclude), and a fast ALL
\* request that read a fresh entry with rows started no build or roster fetch.
FallbackBuildsAll ==
    \A i \in 1..Len(reqs) :
        FastAll(reqs[i]) =>
          LET r == reqs[i]
              K == FourKeys(r)
          IN  /\ r.read = <<>> =>
                   /\ r.pc \in {"fb_roster", "fb_build", "done", "crashed"}
                   /\ Done(r) =>
                        /\ r.status = 200
                        /\ r.built = K
                        /\ \A j \in 1..4 : /\ K[j] \in DOMAIN posCache
                                           /\ posCache[K[j]].at >= r.arrived
                        /\ r.acc = posCache[K[1]].rows \o posCache[K[2]].rows
                                   \o posCache[K[3]].rows \o posCache[K[4]].rows
                        /\ Range(r.players) \subseteq Range(r.acc)
                        /\ ~Tuned(r) => (r.players # <<>> /\ Range(r.players) = Range(r.acc))
              /\ (\E h \in Range(r.read) : h.n > 0) =>
                   /\ Ok(r)
                   /\ r.built = <<>>
                   /\ r.fetched = 0

\* the rows a response off the ids path is cut from
PoolOf(r) ==
    IF route = "guard"
    THEN {x \in Range(projCache.rows) : r.pos = "rb" => x.position = "RB"}
    ELSE IF r.pos = "ALL" THEN Range(r.acc)
    ELSE Range(posCache[<<presetOf(r), passTdOf(r), posOf(r)>>].rows)

\* C8: whatever the limit parameter holds, a successful response cut from a
\* pool that has a row the caller does not exclude holds at least one row.
C8_LimitClamp ==
    \A i \in 1..Len(reqs) :
        (Projections /\ Ok(reqs[i]) /\ reqs[i].ids = "")
        => ((\E x \in PoolOf(reqs[i]) : x.player_id \notin Excluded(reqs[i]))
            => reqs[i].players # <<>>)

\* C9: a step in which the upstream failed (a roster fetch or a build threw,
\* or a weekly page of a build was not answered) leaves every entry that was
\* stored before with its timestamp and rows.
C9_FailedBuildKeepsEntry ==
    [][outages' # outages
       => /\ \A k \in DOMAIN posCache : k \in DOMAIN posCache' /\ posCache'[k] = posCache[k]
          /\ \A k \in DOMAIN idsCache : k \in DOMAIN idsCache' /\ idsCache'[k] = idsCache[k]
          /\ projCache.hit => projCache' = projCache]_vars

\* C10: no projections request ends with the handler's promise rejected.
C10_NoUnhandledRejection ==
    \A i \in 1..Len(reqs) : Projections => reqs[i].pc # "crashed"


(***************************************************************************)
(* Properties of fetchWeek (SpecFetch).                                    *)
(***************************************************************************)

\* the candidates the claim counts as OK: an OK status with a JSON body
Succeeds(c) == c \in {"A", "B", "wrapA", "wrapB", "object", "null"}

\* the array the claim assigns to the body of an OK candidate
ArrayOf(c) ==
    CASE c \in {"A", "wrapA"} -> PageA
      [] c \in {"B", "wrapB"} -> PageB
      [] OTHER -> <<>>

FirstSucceeding(plan) == {k \in 1..Len(plan) : Succeeds(plan[k]) /\ \A j \in 1..(k - 1) : ~Succeeds(plan[j])}

\* the array of the first OK candidate, [] when every candidate fails
Expected(plan) ==
    IF FirstSucceeding(plan) = {} THEN <<>> ELSE ArrayOf(plan[The(FirstSucceeding(plan))])

\* the candidates up to the first OK one, in their order
TriedOf(plan) ==
    [i \in 1..(IF FirstSucceeding(plan) = {} THEN Len(plan) ELSE The(FirstSucceeding(plan))) |-> i]

C19_BoundedConcurrency ==
    wp.pc # "unused" /\ wp.variant \in {"batched", "stats"} =>
        /\ Cardinality(wp.inflight) <= MaxWorkers
        /\ \A w \in Workers : Cardinality({x \in wp.inflight : x.w = w}) <= 1

\* every worker has a fetch outstanding, one of them for its second job
C19_Witness ==
    /\ wp.pc = "run"
    /\ wp.variant = "batched"
    /\ Cardinality(wp.inflight) = MaxWorkers
    /\ Len(wp.started) > MaxWorkers
    /\ Len(wp.settled) = Len(wp.started) - MaxWorkers

\* C20: when fetchWeeksBatched(seasons) returns, every job was started exactly
\* once, results has one slot per job, and slot j holds the page of the j-th
\* (season, week) pair in season-major, week-ascending order, whatever the
\* order of completions.
C20_PositionalResults ==
    wp.pc = "returned" /\ wp.variant = "batched" =>
        LET n == Len(wp.seasons) * NumWeeks IN
        /\ Len(wp.started) = n
        /\ \A j \in 1..n : Cardinality({k \in 1..n : wp.started[k] = j}) = 1
        /\ DOMAIN wp.results = 1..n
        /\ \A j \in 1..n :
              wp.results[j] = fetchWeek(wp.seasons[((j - 1) \div NumWeeks) + 1],
                                        ((j - 1) % NumWeeks) + 1, wp.outage)
        /\ \A j \in 1..n : wp.results[j] = fetchWeeksBatched(wp.seasons, wp.outage)[j]

\* fetchWeeksBatched has returned and the fetches did not complete in the
\* order they were started in
C20_Witness ==
    /\ wp.pc = "returned"
    /\ wp.variant = "batched"
    /\ wp.settled # wp.started
    /\ Len(wp.settled) = Len(wp.seasons) * NumWeeks

\* the records of out are in ascending (season, week) order
Ascending(out) ==
    \A a, b \in 1..Len(out) :
        a < b => \/ out[a].season < out[b].season
                 \/ (out[a].season = out[b].season /\ out[a].week < out[b].week)

\* out has the record of every week whose page has a row for the player
Complete(out, seasons, id, outage) ==
    \A k \in 1..Len(seasons), week \in 1..PoolWeeks :
        (\E row \in Range(fetchWeek(seasons[k], week, outage)) :
            Has(row, "player_id") /\ row.player_id = id)
        => \E a \in 1..Len(out) :
              out[a].season = seasons[k] /\ out[a].week = week /\ out[a].player_id = id

\* C12: the weeks array a stats handler returns is in ascending (season, week)
\* order whatever the order of completions, and, when the handler stopped
\* short of TARGET records, has the player's record for every week the
\* upstream has a line for, all-zero lines included.
C12_WeeklyHistoryOrdered ==
    wp.pc = "returned" /\ wp.variant \in {"stats", "draft"} =>
        /\ Ascending(wp.out)
        /\ wp.collected < TARGET => Complete(wp.out, wp.seasons, wp.id, wp.outage)

\* the same of the stats route alone (stats/[id]/route.ts), which sorts out
\* before it returns, and which has every record when it stopped short of
\* TARGET records
StatsRouteOrdered ==
    wp.pc = "returned" /\ wp.variant = "stats" =>
        /\ Ascending(wp.out)
        /\ wp.collected < TARGET => Complete(wp.out, wp.seasons, wp.id, wp.outage)

\* the stats route has returned records that it collected out of order, an
\* all-zero line among them
StatsRouteOrderedWitness ==
    /\ wp.pc = "returned"
    /\ wp.variant = "stats"
    /\ wp.id = "id3"
    /\ \E a \in 1..Len(wp.out) : wp.out[a].week = 2 /\ wp.out[a].pts_ppr = 0
    /\ Len(wp.out) >= 4


(***************************************************************************)
(* Properties of the scoring helpers (SpecCalc).                           *)
(***************************************************************************)

AgedPositions == {"RB", "WR", "TE", "QB"}
PeakAge == [RB |-> 26, WR |-> 27, TE |-> 28, QB |-> 32]
\* the caps in thousandths
CapDecline == [RB |-> 250, WR |-> 180, TE |-> 120, QB |-> 120]
CapGrowth == [RB |-> 80, WR |-> 60, TE |-> 50, QB |-> 50]

\* C18: in every copy, ageMultiplier(position, age) is exactly 1 at the
\* position's peak age, for a falsy age and for a position outside
\* QB/RB/WR/TE, and for every integer age it lies within
\* [1 - capDecline, 1 + capGrowth] of the position.
C18_AgeMultiplier ==
    calc.pc = "done" /\ calc.fn = "ageMultiplier" =>
        \A copy \in AgeCopies :
            /\ calc.age = 0 => calc.out[copy] = Int2Num(1)
            /\ calc.pos \notin AgedPositions => calc.out[copy] = Int2Num(1)
            /\ calc.pos \in AgedPositions =>
                 /\ calc.age = PeakAge[calc.pos] => calc.out[copy] = Int2Num(1)
                 /\ NumLe(R(1000 - CapDecline[calc.pos], 1000), calc.out[copy])
                 /\ NumLe(calc.out[copy], R(1000 + CapGrowth[calc.pos], 1000))

\* a running back of 31, five years past the peak: the decline is capped at 0.25
C18_Witness ==
    /\ calc.pc = "done"
    /\ calc.fn = "ageMultiplier"
    /\ calc.pos = "RB"
    /\ calc.age = 31
    /\ \A copy \in AgeCopies : calc.out[copy] = R(3, 4)

RECURSIVE SumOver(_, _)
SumOver(S, weight) ==
    IF S = {} THEN 0
    ELSE LET f == CHOOSE f \in S : TRUE IN weight[f] + SumOver(S \ {f}, weight)

\* the precomputed field of a preset
PresetField == [PPR |-> "pts_ppr", HALF_PPR |-> "pts_half_ppr", STANDARD |-> "pts_std"]

\* the points of one unit of each component, in hundredths
Weights(preset, passTd) ==
    [pass_yd |-> 4, pass_td |-> passTd * 100, pass_int |-> -100, rush_yd |-> 10,
     rush_td |-> 600, rec_yd |-> 10, rec_td |-> 600,
     rec |-> CASE preset = "PPR" -> 100 [] preset = "HALF_PPR" -> 50 [] OTHER -> 0]

\* the value the specification gives a weekly stat
ExpectedPoints(stat, preset, passTd) ==
    IF PresetField[preset] \in DOMAIN stat THEN R(stat[PresetField[preset]], 100)
    ELSE LET parts == DOMAIN stat \cap DOMAIN Weights(preset, passTd)
         IN  R(SumOver(parts, [f \in parts |-> stat[f] * Weights(preset, passTd)[f]]), 100)

\* C16: for every weekly stat and every config, every copy of weeklyPoints
\* returns the same value: the precomputed field of the preset when it is
\* present, also when it is 0, and otherwise the sum of the components with
\* absent components counted as 0.
C16_SingleScoring ==
    calc.pc = "done" /\ calc.fn = "weeklyPoints" =>
        \A copy \in PointCopies :
            calc.out[copy] = ExpectedPoints(calc.stat, calc.preset, calc.passTd)

\* a precomputed PPR total of 0 beside rushing yards: every copy returns 0
C16_Witness ==
    /\ calc.pc = "done"
    /\ calc.fn = "weeklyPoints"
    /\ calc.preset = "PPR"
    /\ DOMAIN calc.stat = {"pts_ppr", "rush_yd", "rec"}
    /\ \A copy \in PointCopies : calc.out[copy] = Int2Num(0)

\* a stat without the precomputed field of the preset: every copy returns the sum
C16_FormulaWitness ==
    /\ calc.pc = "done"
    /\ calc.fn = "weeklyPoints"
    /\ calc.preset = "HALF_PPR"
    /\ calc.passTd = 6
    /\ DOMAIN calc.stat = {"pts_ppr", "pass_td", "pass_int", "rec"}
    /\ \A copy \in PointCopies : calc.out[copy] = R(1350, 100)

WeekKey(w) == w.season * 100 + w.week

\* the points of the n latest played weeks, oldest first
ExpectedLastN(weeks, n, preset, passTd) ==
    LET played == {i \in 1..Len(weeks) : didPlay(weeks[i])}
        latest == {i \in played :
                     Cardinality({j \in played : WeekKey(weeks[j]) > WeekKey(weeks[i])}) < n}
    IN  [k \in 1..Cardinality(latest) |->
            ExpectedPoints(weeks[CHOOSE i \in latest :
                                   Cardinality({j \in latest : WeekKey(weeks[j]) < WeekKey(weeks[i])}) = k - 1],
                           preset, passTd)]

\* C17: in every copy, lastNPlayedPoints(weeks, N, cfg) returns the point
\* totals of the N latest weeks for which didPlay is true and of no other
\* week, oldest first, at most N of them; an all-zero week never contributes
\* and a week with one carry and nothing else counts.
C17_LastNPlayed ==
    calc.pc = "done" /\ calc.fn = "lastNPlayedPoints" =>
        \A copy \in PointCopies :
            calc.out[copy] = ExpectedLastN(calc.weeks, calc.n, calc.preset, calc.passTd)

\* the same of the copies that filter by didPlay: the later draft and the page
LaterLastNPlayed ==
    calc.pc = "done" /\ calc.fn = "lastNPlayedPoints" =>
        \A copy \in {"late", "ui"} :
            calc.out[copy] = ExpectedLastN(calc.weeks, calc.n, calc.preset, calc.passTd)

\* three weeks given newest first, the middle one a single carry: the later
\* draft returns the points of the two latest, oldest first
LaterLastNPlayedWitness ==
    /\ calc.pc = "done"
    /\ calc.fn = "lastNPlayedPoints"
    /\ calc.n = 2
    /\ Len(calc.weeks) = 3
    /\ calc.weeks[1].season = 2024
    /\ DOMAIN calc.weeks[2] = {"carries", "season", "week"}
    /\ calc.out["late"] = <<Int2Num(0), Int2Num(7)>>


(***************************************************************************)
(* Properties of the builds (SpecCalc).                                    *)
(***************************************************************************)

BuildRuns == IF calc.pc = "args" /\ calc.fn = "build" THEN 1..Len(calc.runs) ELSE {}

\* C13: every row a build produces has a ppg that is finite and at least 0,
\* whatever the weekly history.
C13_PpgNonNegative ==
    \A r \in BuildRuns :
        \A i \in 1..Len(calc.runs[r].rows) :
            /\ isFinite(calc.runs[r].rows[i].ppg)
            /\ NumLe(Int2Num(0), calc.runs[r].rows[i].ppg)

\* the weeks of player id in the pages of the seasons, in page order
HistoryOf(id, seasons, outage) ==
    LET pages == [j \in 1..(Len(seasons) * NumWeeks) |->
                    fetchWeek(seasons[((j - 1) \div NumWeeks) + 1], ((j - 1) % NumWeeks) + 1, outage)]
    IN  bucketOf(id, pages)

\* the completed years between the birth date and the day today, 0 without a
\* birth date
WholeYears(dateISO, today) ==
    IF dateISO = NoDate THEN 0
    ELSE CHOOSE y \in (-1)..150 : y * 1461 <= (today - dateISO) * 4 /\ (today - dateISO) * 4 < (y + 1) * 1461

\* average(lastNPlayedPoints(bucket, 50, config)) * ageMultiplier(position, floor(age))
ExpectedPpg(p, preset, passTd, seasons, outage, today) ==
    LET last == ExpectedLastN(HistoryOf(p.player_id, seasons, outage), 50, preset, passTd)
        mean == IF Len(last) = 0 THEN Int2Num(0) ELSE NumDivInt(Sum(last), Len(last))
    IN  NumMul(mean, ageMultiplier(p.position, WholeYears(p.birth_date, today)))

ShapeAndValue(r) ==
    /\ Len(calc.runs[r].rows) = Len(calc.players)
    /\ \A i \in 1..Len(calc.players) :
          /\ calc.runs[r].rows[i].player_id = calc.players[i].player_id
          /\ calc.runs[r].rows[i].ppg =
                ExpectedPpg(calc.players[i], calc.preset, calc.passTd, calc.seasons,
                            calc.outage, calc.runs[r].today)

\* C14: a build returns exactly one row per input player, in input order, each
\* with ppg = average(lastNPlayedPoints(bucket, 50, config)) *
\* ageMultiplier(position, floor(age)): buildProjectionsFor and the worker loop
\* of ensureProjections.
C14_BuildShapeAndValue ==
    \A r \in BuildRuns :
        calc.copy \in {"late", "guard"} /\ ~calc.runs[r].threw => ShapeAndValue(r)

\* the same of buildProjectionsFor of the later draft alone
LaterBuildShapeAndValue ==
    \A r \in BuildRuns :
        calc.copy = "late" /\ ~calc.runs[r].threw => ShapeAndValue(r)

\* played weeks scoring 10, 20 and 30 under STANDARD for a WR aged 30:
\* 20 * 0.91 = 18.2
LaterBuildWitness ==
    /\ calc.pc = "args"
    /\ calc.fn = "build"
    /\ calc.copy = "late"
    /\ calc.preset = "STANDARD"
    /\ calc.seasons = DEFAULT_SEASONS
    /\ calc.outage = "none"
    /\ Len(calc.players) = 1
    /\ calc.players[1].player_id = "id30"
    /\ Len(calc.runs) = 1
    /\ calc.runs[1].rows[1].ppg = R(182, 10)

SameRows(a, b) ==
    /\ calc.runs[a].threw = calc.runs[b].threw
    /\ calc.runs[a].rows = calc.runs[b].rows

\* C15 as stated: two builds on the same players, weekly data and config yield
\* identical rows, at whatever time they run.
C15_Original ==
    \A a, b \in BuildRuns : SameRows(a, b)

\* C15 (amended): two runs of buildProjectionsFor on the same players, weekly
\* data and config yield identical rows whenever every player has the same
\* age in whole years at both runs, in whatever order the week fetches
\* complete.
C15_Determinism ==
    \A a, b \in BuildRuns :
        calc.copy \in {"late", "early"}
        /\ (\A i \in 1..Len(calc.players) :
               WholeYears(calc.players[i].birth_date, calc.runs[a].today)
               = WholeYears(calc.players[i].birth_date, calc.runs[b].today))
        => SameRows(a, b)

\* two runs on different days whose week fetches completed in different
\* orders, for a player with points, no birthday in between: identical rows
C15_Witness ==
    /\ calc.pc = "args"
    /\ calc.fn = "build"
    /\ calc.copy = "late"
    /\ Len(calc.runs) = 2
    /\ calc.runs[1].today # calc.runs[2].today
    /\ calc.runs[1].order # calc.runs[2].order
    /\ Len(calc.players) = 1
    /\ calc.players[1].player_id = "id3"
    /\ ~calc.runs[1].threw
    /\ NumLt(Int2Num(0), calc.runs[1].rows[1].ppg)
    /\ SameRows(1, 2)

(***************************************************************************)
(* The per-request timeout (SpecTimeout).                                  *)
(***************************************************************************)

\* a request is outstanding: its fetch promise or the reading of its body
\* has not settled
Outstanding == fw.pc \in {"fetch", "body"}

\* C21: every request issued through withTimeout, the reading of its body
\* included, has completed or been aborted FETCH_TIMEOUT_MS after it was
\* started: no request is outstanding for longer.
C21_TimeoutFreesSlot ==
    Outstanding => fw.now - fw.since <= FETCH_TIMEOUT_MS

\* what does hold: the fetch promise itself settles within the timeout, and
\* fetchWeek goes on after an abort as it does after a response that is not OK
FetchStageBounded ==
    /\ fw.pc = "fetch" => fw.now - fw.since <= FETCH_TIMEOUT_MS
    /\ fw.caller = "fetchWeek" => fw.pc # "threw"

FetchStageBoundedWitness ==
    /\ fw.caller = "fetchWeek"
    /\ fw.pc = "done"
    /\ fw.aborted = 3
    /\ fw.now = 3 * FETCH_TIMEOUT_MS
    /\ fw.result = <<>>

(***************************************************************************)
(* Bucketing (SpecCalc).                                                   *)
(***************************************************************************)

\* the (season, week) pairs of the records of a bucket
KeysOf(bucket) == {<<bucket[i].season, bucket[i].week>> : i \in 1..Len(bucket)}

\* C22: at most one record per (player_id, season, week) contributes to a
\* player's points window: the window of a build holds no more points than
\* the player's bucket has distinct (season, week) pairs, also when a page
\* lists a record twice or the seasons parameter names a season twice.
C22_Deduplicated ==
    calc.pc = "done" /\ calc.fn = "window"
    => Len(calc.out.window) <= Cardinality(KeysOf(calc.out.bucket))

\* a JSON value that is a finite integer: an integral number, or text that
\* parses as one
IsInteger(x) == ~x.nan /\ x.den = 1
WellFormed(v) ==
    \/ v.t = "number" /\ IsInteger(v.v)
    \/ v.t = "string" /\ v.v # "" /\ IsInteger(Number(v.v))

\* the records of a page whose week and season are both finite integers
WellFormedRows(page) ==
    {i \in 1..Len(page) :
        /\ Has(page[i], "week") /\ WellFormed(page[i].week)
        /\ Has(page[i], "season") /\ WellFormed(page[i].season)}

\* C23: a raw record whose week or season is not a finite integer (absent,
\* null, non-numeric text, fractional) never enters a bucket, and every
\* record of a bucket has integer season and week.
C23_RecordValidation ==
    calc.pc = "done" /\ calc.fn = "bucket"
    => /\ Len(calc.out) <= Cardinality(WellFormedRows(calc.page))
       /\ \A i \in 1..Len(calc.out) :
            IsInteger(calc.out[i].week) /\ IsInteger(calc.out[i].season)

\* what does hold: a record whose week or season is absent or is text that
\* is not numeric and not empty is dropped, and every bucketed week and
\* season is a finite number
BucketedFinite ==
    calc.pc = "done" /\ calc.fn = "bucket"
    => /\ \A i \in 1..Len(calc.out) :
            isFinite(calc.out[i].week) /\ isFinite(calc.out[i].season)
       /\ (\E i \in 1..Len(calc.page) :
              \/ ~Has(calc.page[i], "week")
              \/ ~Has(calc.page[i], "season")
              \/ calc.page[i].week = JStr("abc"))
          => Len(calc.out) < Len(calc.page)

(***************************************************************************)
(* Concurrent misses on one cache key (SpecConc).                          *)
(***************************************************************************)

\* request i is rebuilding the position entry k, or the id entry k, that
\* another request, which missed at the same time, has stored since i missed
OverwritesPeer(i, cache, pcs) ==
    /\ route \in {"early", "late"}
    /\ reqs[i].pc \in pcs
    /\ reqs[i].built[Len(reqs[i].built)] \in DOMAIN cache
    /\ cache[reqs[i].built[Len(reqs[i].built)]].at >= reqs[i].arrived

\* a complete row list of one build for a position: one row per player of
\* that position, in roster order
CompleteRows(rows, pos) ==
    /\ Len(rows) = Len(playersAt(pos))
    /\ \A n \in 1..Len(rows) : rows[n].player_id = playersAt(pos)[n].player_id

\* C24: when two requests miss on the same key at the same time and both
\* rebuild, the build that ends second overwrites the entry with a complete
\* row list of its own, and those rows are the rows the first had stored: the
\* entry does not depend on which build ends last.
C24_IdempotentOverwrite ==
    [][\A i \in 1..Len(reqs) :
          /\ (OverwritesPeer(i, posCache, {"pos_build"}) /\ reqs'[i].pc # reqs[i].pc
              /\ posCache' # posCache)
             => LET k == reqs[i].built[Len(reqs[i].built)]
                IN  /\ CompleteRows(posCache'[k].rows, k[3])
                    /\ posCache'[k].rows = posCache[k].rows
          /\ (OverwritesPeer(i, idsCache, {"ids_build"}) /\ reqs'[i] # reqs[i]
              /\ idsCache' # idsCache)
             => LET k == reqs[i].built[Len(reqs[i].built)]
                IN  /\ idsCache'[k].row.player_id = k[3]
                    /\ idsCache'[k].row = idsCache[k].row]_vars

\* what does hold: the entry a concurrent rebuild leaves is a complete row
\* list of one build, never a mixture of two
OverwriteIsWhole ==
    [][\A i \in 1..Len(reqs) :
          (OverwritesPeer(i, posCache, {"pos_build"}) /\ reqs'[i].pc # reqs[i].pc
           /\ posCache' # posCache)
          => CompleteRows(posCache'[reqs[i].built[Len(reqs[i].built)]].rows,
                          reqs[i].built[Len(reqs[i].built)][3])]_vars

(***************************************************************************)
(* The seasons parameter of the later draft (Spec).                        *)
(***************************************************************************)

\* the row of player p in a build over the seasons that request r names,
\* while the upstream behaves as outage says
RowOver(p, r, outage) ==
    upstream[<< <<p>>, presetOf(r), passTdOf(r), seasonsOf(r), outage >>]

\* C26: every row of a successful response of the later draft is the row of
\* a build over the seasons the request names, whether the row was built for
\* the request or taken from the position cache or the id cache.
C26_SeasonsHonoured ==
    \A i \in 1..Len(reqs) :
        (route = "late" /\ Ok(reqs[i]))
        => \A n \in 1..Len(reqs[i].players) :
             \E j \in 1..Len(fetchPlayers), outage \in Outages :
                /\ ~RowOver(fetchPlayers[j], reqs[i], outage).throws
                /\ RowOver(fetchPlayers[j], reqs[i], outage).rows[1] = reqs[i].players[n]

\* what does hold: a response that read no cache entry is built over the
\* seasons of its request
BuiltOverOwnSeasons ==
    \A i \in 1..Len(reqs) :
        (route = "late" /\ Ok(reqs[i]) /\ reqs[i].read = <<>>)
        => \A n \in 1..Len(reqs[i].players) :
             \E j \in 1..Len(fetchPlayers), outage \in Outages :
                /\ ~RowOver(fetchPlayers[j], reqs[i], outage).throws
                /\ RowOver(fetchPlayers[j], reqs[i], outage).rows[1] = reqs[i].players[n]

BuiltOverOwnSeasonsWitness ==
    \E i \in 1..Len(reqs) :
        /\ route = "late" /\ Ok(reqs[i]) /\ reqs[i].read = <<>>
        /\ reqs[i].seasons = "2024"
        /\ Len(reqs[i].players) = 2

(***************************************************************************)
(* The in-flight guard of ensureProjections (SpecConc).                    *)
(***************************************************************************)

\* the requests whose call of ensureProjections is running a build
Builders == {i \in 1..Len(reqs) : reqs[i].pc \in {"g_roster", "g_build"}}

\* at most one build runs, _building is set exactly while it runs, and a
\* request waits on _building only while a build runs
OneBuild ==
    /\ Cardinality(Builders) <= 1
    /\ building = 0 <=> Builders = {}
    /\ building # 0 => Builders = {building}
    /\ Waiters # {} => building # 0

\* C25: under the guard of ensureProjections at most one build runs at any
\* time; when a build settles, resolved or rejected, _building is null
\* again; and a request that arrives while no build runs and finds the cache
\* absent, stale or built for another config starts a build of its own.
C25_SingleBuild ==
    [][route = "guard"
       => /\ OneBuild'
          /\ (Builders # {} /\ Builders' = {}) => building' = 0
          /\ (Len(reqs') = Len(reqs) + 1 /\ Builders = {}
              /\ ~GuardFresh(projCache, reqs'[Len(reqs')]))
             => (Builders' = {Len(reqs')} /\ building' = Len(reqs'))]_vars

\* a build has settled and stored its rows, and a later request, which found
\* them stale or built for another config, is running the next build
C25_Witness ==
    /\ route = "guard"
    /\ projCache.hit
    /\ building > 1
    /\ Builders = {building}
    /\ reqs[building].missed[1].had

(***************************************************************************)
(* The cap of the weekly history (SpecPool).                               *)
(***************************************************************************)

\* the (season, week) pairs, among the seasons asked for, whose page has a
\* row of the player
RowsOf(seasons, id, outage) ==
    {<<seasons[k], week>> : k \in 1..Len(seasons), week \in 1..PoolWeeks}
    \cap {sw \in Range(seasons) \X (1..PoolWeeks) :
            \E row \in Range(fetchWeek(sw[1], sw[2], outage)) :
                Has(row, "player_id") /\ row.player_id = id}

\* the records of out are those of the latest weeks in which the player has
\* a row: every such week that is missing from out lies before all of out
LatestWeeks(out, seasons, id, outage) ==
    \A sw \in RowsOf(seasons, id, outage) \ KeysOf(out) :
        \A a \in 1..Len(out) :
            \/ sw[1] < out[a].season
            \/ (sw[1] = out[a].season /\ sw[2] < out[a].week)

\* C27: the stats route returns at most TARGET (50) records, whatever the
\* order in which the fetches of its workers complete, and they are the
\* records of the latest weeks in which the player has a row.
C27_HistoryCap ==
    wp.pc = "returned" /\ wp.variant = "stats" =>
        /\ Len(wp.out) <= TARGET
        /\ LatestWeeks(wp.out, wp.seasons, wp.id, wp.outage)

\* what does hold: the records are those of the latest weeks, and each worker
\* but one can add a record after TARGET has been reached
HistoryCapWithOvershoot ==
    wp.pc = "returned" /\ wp.variant = "stats" =>
        /\ Len(wp.out) <= TARGET + MaxWorkers - 1
        /\ LatestWeeks(wp.out, wp.seasons, wp.id, wp.outage)

\* exactly TARGET records were returned, and older records were left out
HistoryCapWitness ==
    /\ wp.pc = "returned"
    /\ wp.variant = "stats"
    /\ Len(wp.out) = TARGET
    /\ RowsOf(wp.seasons, wp.id, wp.outage) \ KeysOf(wp.out) # {}

(***************************************************************************)
(* The points of a week of the weekly history under the config.            *)
(***************************************************************************)
\* C28: for a week whose upstream record carries no precomputed PPR total, the
\* points the page computes from the weekly-history endpoint's record under
\* (PPR, passTd = 6) equal the value weeklyPoints gives for the raw components,
\* the formula with 6 points per passing touchdown.
C28_PassTdHonoured ==
    (calc.pc = "done" /\ calc.fn = "history" /\ calc.passTd = 6
     /\ pickNum(calc.stat, <<"pts_ppr", "ppr_points">>) = 0)
        => /\ calc.out.ui = calc.out.raw
           /\ calc.out.ui = ExpectedPoints(calc.stat, "PPR", 6)

\* the endpoint's record always carries pts_ppr, the upstream total or the sum
\* with 4 points per passing touchdown, and the page shows that value under
\* every passTd: it is the raw formula's value exactly when passTd is 4 or the
\* week has no passing touchdown
HistoryPointsAtFour ==
    (calc.pc = "done" /\ calc.fn = "history")
        => /\ Has(calc.out.record, "pts_ppr")
           /\ calc.out.ui = R(calc.out.record.pts_ppr, 100)
           /\ pickNum(calc.stat, <<"pts_ppr", "ppr_points">>) = 0
                => /\ calc.out.ui = ExpectedPoints(calc.stat, "PPR", 4)
                   /\ (calc.out.ui = calc.out.raw) <=> (calc.passTd = 4 \/ ~Has(calc.stat, "pass_td"))

HistoryPointsAtFourWitness ==
    /\ calc.pc = "done"
    /\ calc.fn = "history"
    /\ calc.passTd = 6
    /\ DOMAIN calc.stat = {"pass_yd", "pass_td", "pass_int"}
    /\ calc.out.ui = R(1700, 100)
    /\ calc.out.raw = R(2100, 100)

(***************************************************************************)
(* The ppg usePlayerBundle exposes.                                        *)
(***************************************************************************)
\* the run of the effect for the props the component is rendered with
CurrentRun == ui.runs[Len(ui.runs)]

\* the state the hook returns
Exposed == <<ui.player, ui.ppg, ui.weeks, ui.loading, ui.err>>

\* the ppg of the row the current run's projections request returned, 0 when
\* it returned none
ReturnedPpg ==
    LET resp == CurrentRun.proj
    IN  IF resp.kind = "ok" /\ Len(resp.players) > 0 /\ resp.players[1].player_id = ui.props.id
        THEN resp.players[1].ppg
        ELSE 0

\* a step of a run whose props have been superseded
SupersededStep ==
    \E k \in 1..Len(ui.runs) :
        /\ ui.runs[k].ignore
        /\ ui.runs[k].pc # "done"
        /\ Len(ui.runs') = Len(ui.runs)
        /\ ui.runs'[k].pc # ui.runs[k].pc

\* C29: once the requests issued for the current (id, preset, passTd) have
\* completed, the exposed ppg is the value returned for that id under that
\* config, or 0 when no row was returned for it, and a response to a
\* superseded request never updates the state.
C29_NoStaleProjection ==
    [][/\ (ui'.pc = "bundle" /\ CurrentRun'.pc = "done") => ui'.ppg = ReturnedPpg'
       /\ (ui.pc = "bundle" /\ SupersededStep) => Exposed' = Exposed]_vars

\* what the hook does guarantee: a superseded run changes nothing, and when
\* the current run's projections request was answered, with a row or with a
\* non-OK response, the exposed ppg is that row's ppg or 0
BundleGuarded ==
    [][/\ (ui.pc = "bundle" /\ SupersededStep) => Exposed' = Exposed
       /\ (ui'.pc = "bundle" /\ CurrentRun'.pc = "done"
           /\ (CurrentRun'.proj.kind = "notok" \/ Len(CurrentRun'.proj.players) > 0))
          => ui'.ppg = ReturnedPpg']_vars

\* a superseded run's projections response arrived after the current run's
\* and the current row's ppg stayed
BundleGuardedWitness ==
    /\ ui.pc = "bundle"
    /\ Len(ui.runs) = 2
    /\ ui.runs[1].pc = "done" /\ ui.runs[1].ignore /\ Len(ui.runs[1].proj.players) > 0
    /\ ui.runs[1].props.id = "id1" /\ ui.props.id = "id2"
    /\ CurrentRun.pc = "done"
    /\ ui.ppg = rowPpg(ui.props)

\* the projections endpoint has no row for the player now selected and the
\* ppg of the player selected before is still exposed
StalePpgShown ==
    /\ ui.pc = "bundle"
    /\ Len(ui.runs) = 2
    /\ CurrentRun.pc = "done"
    /\ CurrentRun.proj = [kind |-> "ok", players |-> <<>>]
    /\ ui.props.id = "id2"
    /\ ui.ppg = rowPpg(ui.runs[1].props)

(***************************************************************************)
(* The draft order.                                                        *)
(***************************************************************************)
\* C30: after any sequence of addTeam, removeTeam, addPick, removePick and
\* clearAll from the empty draft, every pick's team is one of the teams, no
\* two teams have names equal ignoring case, and the selected pick team is
\* empty or one of the teams.
C30_DraftConsistent ==
    ui.pc = "draft" =>
        /\ \A i \in 1..Len(ui.picks) : ui.picks[i].team \in Range(ui.teams)
        /\ \A i, j \in 1..Len(ui.teams) :
              toLowerCaseChars(ui.teams[i]) = toLowerCaseChars(ui.teams[j]) => i = j
        /\ ui.pickTeam = <<>> \/ ui.pickTeam \in Range(ui.teams)

\* the selected team, which had a pick, was removed beside a team that keeps
\* its pick: the selection moved to the remaining team, and a name that
\* differs from it by case only is in the team field
C30_Witness ==
    /\ ui.pc = "draft"
    /\ ui.last = "removeTeam"
    /\ ui.made = 2
    /\ ui.teams = << <<"A", "n">> >>
    /\ Len(ui.picks) = 1
    /\ ui.picks[1].team = <<"A", "n">>
    /\ ui.pickTeam = <<"A", "n">>
    /\ ui.newTeam = <<"a", "n">>

====
